---- MODULE Spec2Model ----
(***************************************************************************)
(* Push task execution daemon (plugins/push-todo/scripts/daemon.py): the   *)
(* dispatcher loop (reap, fetch, dispatch, publish, sleep), the atomic     *)
(* claim against the remote queue, the supervised children and the reap    *)
(* pass with its hard timeout.                                             *)
(*                                                                         *)
(* Scores are in hundredths (0.7 is 70).  Times are in seconds.  The clock *)
(* is sampled: it advances while a daemon sleeps, by one of TimeSteps or,  *)
(* below the sampling resolution, not at all.                              *)
(***************************************************************************)
EXTENDS Integers, Sequences, FiniteSets, TLC

\* ---------------------------------------------------------------- bounds
NumTasks == 6
NumDaemons == 2
QueuedAtStart == 2
RaceTasks == 1
MaxTime == 3601
MaxScore == 100
MaxLines == 2
MonTasks == 1
RequeuedTasks == 2
MaxPids == 3
NumRemotes == 2
NumPaths == 2
MaxRegClock == 4
MaxPieces == 4

\* Distinct values uuid4 can draw, and calls of get_machine_id followed.
NumSuffixes == 3

MaxIdCalls == 4

\* Pieces a status snapshot is written and read in, and files on the disk.
NumChunks == 2

MaxInodes == 3
MaxCompleted == 11

Tasks == 1..NumTasks
Daemons == 1..NumDaemons

\* ----------------------------------------------------- program constants
GLOBAL_MODE_ENABLED == TRUE
MAX_CONCURRENT_TASKS == 5
CERTAINTY_HIGH_THRESHOLD == 70
CERTAINTY_LOW_THRESHOLD == 40
TASK_TIMEOUT_SECONDS == 3600
STUCK_IDLE_THRESHOLD == 600
RETRY_MAX_ATTEMPTS == 3
RETRY_INITIAL_DELAY == 2
RETRY_MAX_DELAY == 30
RETRY_BACKOFF_FACTOR == 2
COMPLETED_SHOWN == 10

\* The amounts the sampled clock can jump by: a whole timeout (an elapsed time
\* of exactly TASK_TIMEOUT_SECONDS, which is not a timeout) and one second
\* more (the first elapsed time that is one).
TimeSteps == {TASK_TIMEOUT_SECONDS, TASK_TIMEOUT_SECONDS + 1}

VARIABLES
    exec_status,     \* server: task -> execution_status
    claimed_by,      \* server: task -> machine holding the claim (0: none, -1: a machine outside Daemons)
    sent_terminal,   \* task -> number of terminal reports (completed, failed) sent to the server
    now,             \* the clock
    pc,              \* daemon -> position in main()'s loop ("off": not started)
    fetched,         \* daemon -> tasks of the current fetch still to dispatch
    running_tasks,   \* daemon -> display numbers in dict (insertion) order
    task_details,    \* daemon -> task -> task_info
    completed_today, \* daemon -> list of entries
    child,           \* daemon -> task -> state of the child process spawned for it
    last_call,       \* daemon -> the calls of the iteration's last execute_task
    last_reap,       \* daemon -> the calls of the check_running_tasks just run
    lost_claims,     \* daemon -> tasks whose claim was answered claimed=false, this iteration and the one before
    probe,           \* inputs and outputs of the pure functions (SpecFn, SpecApi)
    registry_file,   \* the project registry on disk: the tasks whose project is registered
    registry,        \* daemon -> the projects of its registry singleton (loaded once)
    task_last_output, \* daemon -> task -> time of the last stdout line read (-1: no entry)
    pid_file, \* daemon -> whether the pid file of its machine is there
    status_file, \* daemon -> the status snapshot on disk
    host, \* the machine of the foreground tools: daemon processes, pid and version file
    reg, \* a foreground tool's ProjectRegistry: _data, the file, and the time of day
    task_project_paths, \* daemon -> task -> project path kept for the reap pass (0: none)
    git, \* daemon -> worktrees and branches of the repositories on its machine
    disk \* the files ~/.push/daemon_status.json and .tmp, and who has them open

vars == <<exec_status, claimed_by, sent_terminal, now, pc, fetched, running_tasks,
          task_details, completed_today, child, last_call, last_reap, lost_claims, probe,
          registry_file, registry, task_last_output, pid_file, status_file, host, reg,
          task_project_paths, git, disk>>

\* ---------------------------------------------------------------- helpers
Ev(e, t, s, x, n) == [ev |-> e, task |-> t, status |-> s, error |-> x, num |-> n]

RECURSIVE Flatten(_)
Flatten(ss) == IF ss = <<>> THEN <<>> ELSE Head(ss) \o Flatten(Tail(ss))

HasEv(tr, e, t) == \E i \in 1..Len(tr) : tr[i].ev = e /\ tr[i].task = t

InSeq(s, x) == \E i \in 1..Len(s) : s[i] = x

NoDetail == [present |-> FALSE, started_at |-> 0, phase |-> ""]

NoCall == [task |-> 0, events |-> <<>>]

LastN(s, n) == IF Len(s) <= n THEN s ELSE SubSeq(s, Len(s) - n + 1, Len(s))

\* ------------------------------------------------------- write_status_file
\* The snapshot of running table rt, details td and completed list ct; the
\* timestamps, ids and summaries are left out.  update_task_detail sets the
\* status of an entry to "running" only, so the second loop finds no entry
\* with status "queued".
NoStatus ==
    [written |-> FALSE, active_tasks |-> <<>>, completed_today |-> <<>>,
     stats |-> [running |-> 0, max_concurrent |-> 0, completed_today |-> 0]]

\* The "status" of a task_details entry: execute_task is the only writer.
DetailStatus(info) == IF info.present THEN "running" ELSE ""

StatusRank(entry) == IF entry.status = "running" THEN 0 ELSE 1

ActiveBefore(a, b) ==
    \/ StatusRank(a) < StatusRank(b)
    \/ StatusRank(a) = StatusRank(b) /\ a.display_number < b.display_number

\* Faulty variant: the running entries are taken from task_details.
write_status_file_from_details(rt, td, ct) ==
    LET shown == SelectSeq([t \in 1..NumTasks |-> t], LAMBDA t : td[t].present)
    IN [written |-> TRUE,
        active_tasks |-> [i \in 1..Len(shown) |->
                            [display_number |-> shown[i], status |-> "running",
                             phase |-> td[shown[i]].phase]],
        completed_today |-> LastN(ct, COMPLETED_SHOWN),
        stats |-> [running |-> Len(shown), max_concurrent |-> MAX_CONCURRENT_TASKS,
                   completed_today |-> Len(ct)]]

\* Faulty variant: the whole completed list is written.
write_status_file_unbounded(rt, td, ct) ==
    [written |-> TRUE,
     active_tasks |-> [i \in 1..Len(rt) |->
                         [display_number |-> rt[i], status |-> "running", phase |-> "executing"]],
     completed_today |-> ct,
     stats |-> [running |-> Len(rt), max_concurrent |-> MAX_CONCURRENT_TASKS,
                completed_today |-> Len(ct)]]

write_status_file(rt, td, ct) ==
    LET running == [i \in 1..Len(rt) |->
                      [display_number |-> rt[i], status |-> "running",
                       phase |-> IF td[rt[i]].present THEN td[rt[i]].phase ELSE "executing"]]
        queued == SelectSeq([t \in 1..NumTasks |->
                               [display_number |-> t, status |-> "queued", phase |-> ""]],
                            LAMBDA e : /\ td[e.display_number].present
                                       /\ ~InSeq(rt, e.display_number)
                                       /\ DetailStatus(td[e.display_number]) = "queued")
    IN [written |-> TRUE,
        active_tasks |-> SortSeq(running \o queued, ActiveBefore),
        completed_today |-> LastN(ct, COMPLETED_SHOWN),
        stats |-> [running |-> Len(rt),
                   max_concurrent |-> MAX_CONCURRENT_TASKS,
                   completed_today |-> Len(ct)]]

\* ------------------------------------------------------- server responses
\* A JSON answer of update-task-execution as claim_task reads it: each of
\* "success" and "claimed" is true, false, null or absent; NoResponse is
\* api_request returning None.
JsonValues == {"true", "false", "null", "absent"}

NoResponse == [present |-> FALSE, success |-> "absent", claimed |-> "absent"]

Resp(s, c) == [present |-> TRUE, success |-> s, claimed |-> c]

Responses == {NoResponse} \cup {Resp(s, c) : s \in JsonValues, c \in JsonValues}

\* Python truth of api_request's result: None and the empty object are falsy.
Truthy(result) == result.present /\ ~(result.success = "absent" /\ result.claimed = "absent")

\* The remote service's conditional update (update-task-execution with
\* atomic=true): the status becomes running only if it is still queued, and
\* the answer says whether it did.
atomic_update_applies(status) == status = "queued"

atomic_update_response(status) ==
    Resp("true", IF atomic_update_applies(status) THEN "true" ELSE "false")

\* What api_request returns for the claim of task t.  net is the fate of the
\* request: answered; never delivered; applied by the server with every answer
\* lost; applied with the first answer lost and the re-sent request answered.
NetOutcomes == {"ok", "request_lost", "response_lost", "response_lost_retried"}

ClaimAnswer(t, net) ==
    CASE net = "ok" -> atomic_update_response(exec_status[t])
      [] net = "response_lost_retried" ->
            atomic_update_response(IF atomic_update_applies(exec_status[t])
                                   THEN "running" ELSE exec_status[t])
      [] OTHER -> NoResponse

\* The todos marked isBacklog.
BacklogTasks == {NumTasks}

\* GET synced-todos with an execution_status filter, in display-number order;
\* the server leaves the backlog todos out or not.
synced_todos(filter, backlog_excluded) ==
    SelectSeq([i \in 1..NumTasks |-> i],
              LAMBDA t : /\ filter = "any" \/ exec_status[t] = filter
                         /\ ~(backlog_excluded /\ t \in BacklogTasks))

\* The fate of a fetch: no answer, or the todos with or without the backlog.
FetchOutcomes == {"failed", "todos", "todos_backlog_excluded"}

\* ------------------------------------------------------------ api_request
\* What urlopen raises.  An HTTPError carries a status code and is a URLError
\* too (its subclass); a URLError is a network failure (unreachable, refused,
\* reset); "other" is any other exception (a socket timeout while reading, a
\* body that is not JSON).  text says whether the message holds one of the
\* words of RETRYABLE_ERRORS apart from the status code.
HttpCodes == {400, 401, 403, 404, 429, 500, 502, 503}

Errors ==
    {[kind |-> "HTTPError", code |-> c, text |-> "plain"] : c \in HttpCodes}
    \cup {[kind |-> k, code |-> 0, text |-> x] : k \in {"URLError", "other"},
                                                x \in {"plain", "pattern"}}

Ok == [kind |-> "ok", code |-> 0, text |-> "plain"]

\* str(error) of an HTTPError holds its code.
MatchesPattern(e) == e.text = "pattern" \/ (e.kind = "HTTPError" /\ e.code \in {429, 502, 503, 504})

IsInstanceURLError(e) == e.kind \in {"URLError", "HTTPError"}

is_retryable_error(e) ==
    \/ MatchesPattern(e)
    \/ e.kind = "HTTPError" /\ (e.code = 429 \/ (500 <= e.code /\ e.code < 600))
    \/ IsInstanceURLError(e)

max_attempts(retry) == IF retry THEN RETRY_MAX_ATTEMPTS ELSE 1

Min(a, b) == IF a <= b THEN a ELSE b

\* Faulty variant: the delay never grows.
next_delay_flat(delay) == delay

next_delay(delay) == Min(delay * RETRY_BACKOFF_FACTOR, RETRY_MAX_DELAY)

\* The loop of api_request from attempt k on: outcomes[k] is what urlopen does
\* at attempt k.  The calls, in order: urlopen, time.sleep, return.
RECURSIVE attempts_from(_, _, _, _)
attempts_from(k, delay, retry, outcomes) ==
    IF k > max_attempts(retry) THEN <<Ev("return", 0, "None", "", 0)>>
    ELSE <<Ev("urlopen", 0, outcomes[k].kind, "", k)>>
         \o (IF outcomes[k] = Ok THEN <<Ev("return", 0, "response", "", k)>>
             ELSE IF k # max_attempts(retry) /\ retry /\ is_retryable_error(outcomes[k])
             THEN <<Ev("sleep", 0, "", "", delay)>>
                  \o attempts_from(k + 1, next_delay(delay), retry, outcomes)
             ELSE <<Ev("return", 0, "None", "", k)>>)

api_request(api_key, retry, outcomes) ==
    IF ~api_key THEN <<Ev("return", 0, "None", "", 0)>>
    ELSE attempts_from(1, RETRY_INITIAL_DELAY, retry, outcomes)


\* Variants of the functions below, each with one fault; a property that is
\* said to rest on a function fails when the variant takes its place.
\* claim_task that reads "success" and never "claimed".
claim_task_trusting(global, result) ==
    IF ~global THEN TRUE ELSE Truthy(result) /\ result.success = "true"

\* claim_task without the backward-compatibility path.
claim_task_strict(global, result) ==
    IF ~global THEN TRUE ELSE Truthy(result) /\ result.claimed = "true"

\* get_execution_mode with strict comparisons.
get_execution_mode_strict(analysis) ==
    IF ~analysis.available THEN "immediate"
    ELSE IF analysis.score > CERTAINTY_HIGH_THRESHOLD THEN "immediate"
    ELSE IF analysis.score > CERTAINTY_LOW_THRESHOLD THEN "planning"
    ELSE "clarify"

\* The capacity guard off by one.
CapacityReached_above(n) == n > MAX_CONCURRENT_TASKS

\* The timeout test one second late.
TimedOut_late(elapsed) == elapsed > TASK_TIMEOUT_SECONDS + 1

\* fetch_queued_tasks without the execution_status filter.
fetch_any_tasks(answer) ==
    IF answer = "failed" THEN <<>> ELSE synced_todos("any", answer = "todos_backlog_excluded")

\* ------------------------------------------------------- the pure functions
claim_task(global, result) ==
    IF ~global THEN TRUE
    ELSE IF ~Truthy(result) THEN FALSE
    ELSE IF result.claimed = "true" THEN TRUE
    ELSE IF result.claimed = "false" THEN FALSE
    ELSE result.success = "true"

NoAnalysis == [available |-> FALSE, score |-> 0]

Analysis(s) == [available |-> TRUE, score |-> s]

get_execution_mode(analysis) ==
    IF ~analysis.available THEN "immediate"
    ELSE IF analysis.score >= CERTAINTY_HIGH_THRESHOLD THEN "immediate"
    ELSE IF analysis.score >= CERTAINTY_LOW_THRESHOLD THEN "planning"
    ELSE "clarify"

CapacityReached(n) == n >= MAX_CONCURRENT_TASKS

TimedOut(elapsed) == elapsed > TASK_TIMEOUT_SECONDS

\* The lookup in the registry singleton; a task's project is named by the task.
get_project_path_for_task(d, t) == t \in registry[d]

\* --------------------------------------------------------------- worktrees
\* The name f"push-{display_number}-{suffix}"; the suffix of a machine is
\* taken from its machine id, and machines are numbered.
get_worktree_suffix(d) == d

WorktreeName(display_number, suffix) == <<"push", display_number, suffix>>

\* Project paths are numbered by the task whose project they hold; NoProject
\* is Python's None.
NoProject == 0

ProjectPath(t) == t

\* A directory: the parent of the project directory (of the working directory
\* when there is no project path) and the leaf name.
get_worktree_path(d, display_number, project_path) ==
    [parent |-> project_path, leaf |-> WorktreeName(display_number, get_worktree_suffix(d))]

\* Faulty variant: the branch is named after another machine.
BranchOf_other(d, display_number, project_path) ==
    [git_cwd |-> project_path, name |-> WorktreeName(display_number, get_worktree_suffix(d) + 1)]

BranchOf(d, display_number, project_path) ==
    [git_cwd |-> project_path, name |-> WorktreeName(display_number, get_worktree_suffix(d))]

NoPath == [parent |-> NoProject, leaf |-> <<>>]

NoBranch == [git_cwd |-> NoProject, name |-> <<>>]

\* The worktrees and branches of a machine, the path and branch create_worktree
\* last returned for each task, and the path cleanup_worktree last removed.
NoGit ==
    [worktrees |-> {}, branches |-> {},
     made |-> [t \in Tasks |-> [path |-> NoPath, branch |-> NoBranch]],
     removed |-> [t \in Tasks |-> NoPath]]

\* create_worktree that succeeds: an existing directory is returned as it is,
\* else "git worktree add" creates the directory and creates or attaches the
\* branch.
create_worktree(g, d, display_number, project_path) ==
    LET worktree_path == get_worktree_path(d, display_number, project_path)
        branch == BranchOf(d, display_number, project_path)
    IN [g EXCEPT !.worktrees = @ \cup {worktree_path},
                 !.branches = IF worktree_path \in g.worktrees THEN @ ELSE @ \cup {branch},
                 !.made[display_number] = [path |-> worktree_path, branch |-> branch]]

\* Faulty variant: the branch goes with the worktree.
cleanup_worktree_and_branch(g, d, display_number, project_path, removed) ==
    LET worktree_path == get_worktree_path(d, display_number, project_path)
    IN IF worktree_path \notin g.worktrees \/ ~removed THEN g
       ELSE [g EXCEPT !.worktrees = @ \ {worktree_path},
                      !.branches = @ \ {BranchOf(d, display_number, project_path)},
                      !.removed[display_number] = worktree_path]

\* cleanup_worktree: "git worktree remove --force" on the directory if it is
\* there; removed says whether git did it.
cleanup_worktree(g, d, display_number, project_path, removed) ==
    LET worktree_path == get_worktree_path(d, display_number, project_path)
    IN IF worktree_path \notin g.worktrees \/ ~removed THEN g
       ELSE [g EXCEPT !.worktrees = @ \ {worktree_path},
                      !.removed[display_number] = worktree_path]

\* The repositories after the create_worktree and cleanup_worktree calls of tr;
\* paths gives the project path each call is made with.
RECURSIVE GitAfter(_, _, _, _, _)
GitAfter(g, tr, d, paths, removed) ==
    IF tr = <<>> THEN g
    ELSE LET e == Head(tr)
             after == IF e.ev = "create_worktree" /\ e.status = "ok"
                      THEN create_worktree(g, d, e.task, paths[e.task])
                      ELSE IF e.ev = "cleanup_worktree"
                      THEN cleanup_worktree(g, d, e.task, paths[e.task], removed)
                      ELSE g
         IN GitAfter(after, Tail(tr), d, paths, removed)

fetch_queued_tasks(answer) ==
    IF answer = "failed" THEN <<>> ELSE synced_todos("queued", answer = "todos_backlog_excluded")

\* ------------------------------------------------------------ execute_task
\* The calls one execute_task makes, in order, as events.
launch(t, mode, wt_ok, spawn_ok) ==
    (IF GLOBAL_MODE_ENABLED THEN <<>>
     ELSE <<Ev("update_task_status", t, "running", "", 0)>>)
    \o (IF ~wt_ok
        THEN <<Ev("create_worktree", t, "failed", "", 0),
               Ev("update_task_status", t, "failed", "Failed to create git worktree", 0)>>
        ELSE <<Ev("create_worktree", t, "ok", "", 0)>>
             \o (IF spawn_ok
                 THEN <<Ev("Popen", t, "ok", mode, 0),
                        Ev("running_tasks_add", t, "", "", 0),
                        Ev("update_task_detail", t, "executing", "", 0)>>
                 ELSE <<Ev("Popen", t, "failed", mode, 0),
                        Ev("update_task_status", t, "failed", "Error starting Claude", 0)>>))

\* Faulty variant: the clarify branch does not return.
run_claimed_through(t, analysis, wt_ok, spawn_ok) ==
    LET mode == get_execution_mode(analysis) IN
    <<Ev("update_task_detail", t, "analyzing", "", 0),
      Ev("get_execution_mode", t, mode, "", 0)>>
    \o (IF mode = "clarify"
        THEN <<Ev("update_task_status", t, "needs_clarification", "", 0),
               Ev("send_notification", t, "needs_input", "", 0)>>
        ELSE <<>>)
    \o launch(t, mode, wt_ok, spawn_ok)

run_claimed(t, analysis, wt_ok, spawn_ok) ==
    LET mode == get_execution_mode(analysis) IN
    <<Ev("update_task_detail", t, "analyzing", "", 0),
      Ev("get_execution_mode", t, mode, "", 0)>>
    \o (IF mode = "clarify"
        THEN <<Ev("update_task_status", t, "needs_clarification", "", 0),
               Ev("send_notification", t, "needs_input", "", 0)>>
        ELSE launch(t, mode, wt_ok, spawn_ok))

\* Faulty variant: a task of an unregistered project is reported as failed.
execute_task_rejecting(d, t, remote, result, analysis, wt_ok, spawn_ok) ==
    IF t = 0 THEN <<Ev("skip", t, "no_display_number", "", 0)>>
    ELSE IF InSeq(running_tasks[d], t) THEN <<Ev("skip", t, "already_running", "", 0)>>
    ELSE IF CapacityReached(Len(running_tasks[d])) THEN <<Ev("skip", t, "max_concurrent", "", 0)>>
    ELSE IF GLOBAL_MODE_ENABLED /\ remote = "absent" THEN <<Ev("skip", t, "no_git_remote", "", 0)>>
    ELSE IF GLOBAL_MODE_ENABLED /\ ~get_project_path_for_task(d, t)
         THEN <<Ev("skip", t, "not_registered", "", 0),
                Ev("update_task_status", t, "failed", "Project not registered", 0)>>
    ELSE IF GLOBAL_MODE_ENABLED /\ ~claim_task(GLOBAL_MODE_ENABLED, result)
         THEN <<Ev("claim_task", t, "false", "", 0)>>
    ELSE (IF GLOBAL_MODE_ENABLED THEN <<Ev("claim_task", t, "true", "", 0)>> ELSE <<>>)
         \o run_claimed(t, analysis, wt_ok, spawn_ok)

\* Faulty variant: a task refused for capacity is reported as failed.
execute_task_failing(d, t, remote, result, analysis, wt_ok, spawn_ok) ==
    IF t = 0 THEN <<Ev("skip", t, "no_display_number", "", 0)>>
    ELSE IF InSeq(running_tasks[d], t) THEN <<Ev("skip", t, "already_running", "", 0)>>
    ELSE IF CapacityReached(Len(running_tasks[d]))
         THEN <<Ev("skip", t, "max_concurrent", "", 0),
                Ev("update_task_status", t, "failed", "Max concurrent tasks", 0)>>
    ELSE IF GLOBAL_MODE_ENABLED /\ remote = "absent" THEN <<Ev("skip", t, "no_git_remote", "", 0)>>
    ELSE IF GLOBAL_MODE_ENABLED /\ ~get_project_path_for_task(d, t)
         THEN <<Ev("skip", t, "not_registered", "", 0)>>
    ELSE IF GLOBAL_MODE_ENABLED /\ ~claim_task(GLOBAL_MODE_ENABLED, result)
         THEN <<Ev("claim_task", t, "false", "", 0)>>
    ELSE (IF GLOBAL_MODE_ENABLED THEN <<Ev("claim_task", t, "true", "", 0)>> ELSE <<>>)
         \o run_claimed(t, analysis, wt_ok, spawn_ok)

\* Faulty variant: the work starts before the claim is made.
execute_task_unclaimed(d, t, remote, result, analysis, wt_ok, spawn_ok) ==
    IF t = 0 THEN <<Ev("skip", t, "no_display_number", "", 0)>>
    ELSE IF InSeq(running_tasks[d], t) THEN <<Ev("skip", t, "already_running", "", 0)>>
    ELSE IF CapacityReached(Len(running_tasks[d])) THEN <<Ev("skip", t, "max_concurrent", "", 0)>>
    ELSE IF remote = "absent" THEN <<Ev("skip", t, "no_git_remote", "", 0)>>
    ELSE IF ~get_project_path_for_task(d, t) THEN <<Ev("skip", t, "not_registered", "", 0)>>
    ELSE run_claimed(t, analysis, wt_ok, spawn_ok)
         \o <<Ev("claim_task", t,
                 IF claim_task(GLOBAL_MODE_ENABLED, result) THEN "true" ELSE "false", "", 0)>>

execute_task(d, t, remote, result, analysis, wt_ok, spawn_ok) ==
    IF t = 0 THEN <<Ev("skip", t, "no_display_number", "", 0)>>
    ELSE IF InSeq(running_tasks[d], t) THEN <<Ev("skip", t, "already_running", "", 0)>>
    ELSE IF CapacityReached(Len(running_tasks[d])) THEN <<Ev("skip", t, "max_concurrent", "", 0)>>
    ELSE IF GLOBAL_MODE_ENABLED /\ remote = "absent" THEN <<Ev("skip", t, "no_git_remote", "", 0)>>
    ELSE IF GLOBAL_MODE_ENABLED /\ ~get_project_path_for_task(d, t)
         THEN <<Ev("skip", t, "not_registered", "", 0)>>
    ELSE IF GLOBAL_MODE_ENABLED /\ ~claim_task(GLOBAL_MODE_ENABLED, result)
         THEN <<Ev("claim_task", t, "false", "", 0)>>
    ELSE (IF GLOBAL_MODE_ENABLED THEN <<Ev("claim_task", t, "true", "", 0)>> ELSE <<>>)
         \o run_claimed(t, analysis, wt_ok, spawn_ok)

\* The inputs of one execute_task call: the task's remote, the fate of the
\* claim request, the analyzer's answer, and whether git and the spawn
\* succeed.  An input the call does not read is held at one value.  A status
\* update (update_task_status) is taken as delivered.
AnalysisInputs == {NoAnalysis} \cup {Analysis(s) : s \in {39, 40, 70}}

Input(r, n, a, w, s) ==
    [numbered |-> TRUE, remote |-> r, net |-> n, analysis |-> a, wt_ok |-> w, spawn_ok |-> s]

\* A todo that carries no display number (read as 0).
Unnumbered == [Input("present", "ok", NoAnalysis, TRUE, TRUE) EXCEPT !.numbered = FALSE]

DispatchInputs ==
    {Unnumbered, Input("absent", "ok", NoAnalysis, TRUE, TRUE)}
    \cup {Input("present", n, NoAnalysis, TRUE, TRUE) : n \in NetOutcomes \ {"ok"}}
    \cup {Input("present", "ok", a, w, s) : a \in AnalysisInputs, w \in BOOLEAN, s \in BOOLEAN}

\* A registered project, a working git and no analyzer: the claim's fate
\* varies.
RaceInputs == {Input("present", n, NoAnalysis, TRUE, TRUE) : n \in NetOutcomes}

\* A registered project, an answered claim, a working git and no analyzer: the
\* spawn succeeds or fails.
CapInputs == {Input("present", "ok", NoAnalysis, TRUE, s) : s \in BOOLEAN}

\* The same, and todos without a display number.
OpsInputs == CapInputs \cup {Unnumbered}

\* A registered project, an answered claim, a working git and spawn.
MonInputs == {Input("present", "ok", NoAnalysis, TRUE, TRUE)}

IsTerminal(status) == status \in {"completed", "failed"}

Terminals(tr, t) ==
    Cardinality({i \in 1..Len(tr) : /\ tr[i].ev = "update_task_status"
                                     /\ tr[i].task = t
                                     /\ IsTerminal(tr[i].status)})

\* The server's status of t after the updates of tr for t, all delivered.
RECURSIVE ApplyUpdates(_, _, _)
ApplyUpdates(status, tr, t) ==
    IF tr = <<>> THEN status
    ELSE ApplyUpdates(IF Head(tr).ev = "update_task_status" /\ Head(tr).task = t
                      THEN Head(tr).status ELSE status, Tail(tr), t)

\* task_details[t] after the update_task_detail calls of tr for t.
RECURSIVE ApplyDetails(_, _, _)
ApplyDetails(info, tr, t) ==
    IF tr = <<>> THEN info
    ELSE ApplyDetails(
            IF Head(tr).ev = "update_task_detail" /\ Head(tr).task = t
            THEN [present |-> TRUE,
                  started_at |-> IF Head(tr).status = "analyzing" THEN now ELSE info.started_at,
                  phase |-> Head(tr).status]
            ELSE info, Tail(tr), t)

\* The calls of tr up to the Popen that succeeded.
RECURSIVE UpToPopen(_)
UpToPopen(tr) ==
    IF tr = <<>> THEN <<>>
    ELSE IF Head(tr).ev = "Popen" /\ Head(tr).status = "ok" THEN <<Head(tr)>>
    ELSE <<Head(tr)>> \o UpToPopen(Tail(tr))

Spawns(tr) == \E i \in 1..Len(tr) : tr[i].ev = "Popen" /\ tr[i].status = "ok"

\* One execute_task call for the head of the fetched list: the whole call, or
\* (cut) the call up to the return of Popen, the child running and not yet in
\* the running table.
DispatchPart(d, inputs, cut) ==
    /\ pc[d] = "dispatch"
    /\ fetched[d] # <<>>
    /\ \E in \in inputs :
         LET t == Head(fetched[d])
             display_num == IF in.numbered THEN t ELSE 0
             result == ClaimAnswer(t, in.net)
             whole == execute_task(d, display_num, in.remote, result, in.analysis,
                                   in.wt_ok, in.spawn_ok)
             tr == IF cut THEN UpToPopen(whole) ELSE whole
             sent == HasEv(tr, "claim_task", t)
             applied == /\ sent
                        /\ in.net # "request_lost"
                        /\ atomic_update_applies(exec_status[t])
             claimed_status == IF applied THEN "running" ELSE exec_status[t]
             project_path == IF GLOBAL_MODE_ENABLED /\ get_project_path_for_task(d, t)
                             THEN ProjectPath(t) ELSE NoProject
         IN /\ cut => Spawns(whole)
            /\ get_worktree_path(d, display_num, project_path) \in git[d].worktrees => in.wt_ok
            /\ git' = [git EXCEPT ![d] =
                         GitAfter(@, tr, d, [u \in Tasks |-> project_path], TRUE)]
            /\ task_project_paths' = [task_project_paths EXCEPT ![d][t] =
                                         IF HasEv(tr, "running_tasks_add", t) THEN project_path
                                         ELSE @]
            /\ exec_status' = [exec_status EXCEPT ![t] = ApplyUpdates(claimed_status, tr, t)]
            /\ claimed_by' = [claimed_by EXCEPT ![t] = IF applied THEN d ELSE @]
            /\ sent_terminal' = [sent_terminal EXCEPT ![t] = @ + Terminals(tr, t)]
            /\ running_tasks' = [running_tasks EXCEPT ![d] =
                                  IF HasEv(tr, "running_tasks_add", t) THEN Append(@, t) ELSE @]
            /\ task_details' = [task_details EXCEPT ![d][t] = ApplyDetails(@, tr, t)]
            /\ child' = [child EXCEPT ![d][t] =
                            IF \E i \in 1..Len(tr) : tr[i] = Ev("Popen", t, "ok", tr[i].error, 0)
                            THEN "alive" ELSE @]
            /\ last_call' = [last_call EXCEPT ![d] = [task |-> display_num, events |-> tr]]
            /\ lost_claims' = [lost_claims EXCEPT ![d].cur =
                                  IF sent /\ result.present /\ result.claimed = "false"
                                  THEN @ \cup {t} ELSE @]
            /\ fetched' = [fetched EXCEPT ![d] = IF cut THEN @ ELSE Tail(@)]
            /\ pc' = [pc EXCEPT ![d] = IF cut THEN "spawned"
                                       ELSE IF Tail(fetched[d]) = <<>> THEN "sleep"
                                       ELSE "dispatch"]
            /\ task_last_output' = [task_last_output EXCEPT ![d][t] =
                                      IF HasEv(tr, "running_tasks_add", t) THEN now ELSE @]
            /\ status_file' = [status_file EXCEPT ![d] =
                                 IF \E i \in 1..Len(tr) : tr[i].ev = "update_task_detail"
                                 THEN write_status_file(running_tasks'[d], task_details'[d],
                                                        completed_today[d])
                                 ELSE @]
            /\ UNCHANGED <<now, completed_today, last_reap, probe, registry_file, registry,
                           pid_file, host, reg, disk>>

DispatchWith(d, inputs) == DispatchPart(d, inputs, FALSE)

Dispatch(d) == DispatchWith(d, DispatchInputs)

\* execute_task as far as the return of Popen.
Spawn(d) == DispatchPart(d, CapInputs, TRUE)

\* The rest of that call: the child is entered in the running table.
Record(d) ==
    /\ pc[d] = "spawned"
    /\ LET t == Head(fetched[d])
           tr == <<Ev("running_tasks_add", t, "", "", 0),
                   Ev("update_task_detail", t, "executing", "", 0)>>
       IN /\ running_tasks' = [running_tasks EXCEPT ![d] = Append(@, t)]
          /\ task_details' = [task_details EXCEPT ![d][t] = ApplyDetails(@, tr, t)]
          /\ task_last_output' = [task_last_output EXCEPT ![d][t] = now]
          /\ last_call' = [last_call EXCEPT ![d].events = @ \o tr]
          /\ status_file' = [status_file EXCEPT ![d] =
                               write_status_file(running_tasks'[d], task_details'[d],
                                                 completed_today[d])]
          /\ task_project_paths' = [task_project_paths EXCEPT ![d][t] =
                                       IF GLOBAL_MODE_ENABLED /\ get_project_path_for_task(d, t)
                                       THEN ProjectPath(t) ELSE NoProject]
    /\ fetched' = [fetched EXCEPT ![d] = Tail(@)]
    /\ pc' = [pc EXCEPT ![d] = IF Tail(fetched[d]) = <<>> THEN "sleep" ELSE "dispatch"]
    /\ UNCHANGED <<exec_status, claimed_by, sent_terminal, now, completed_today, child,
                   last_reap, lost_claims, probe, registry_file, registry, pid_file, host, reg,
                   git, disk>>

DispatchRace(d) == DispatchWith(d, RaceInputs)

DispatchCap(d) == DispatchWith(d, CapInputs)

DispatchMon(d) == DispatchWith(d, MonInputs)

DispatchOps(d) == DispatchWith(d, OpsInputs)

\* ------------------------------------------------------ fetch_queued_tasks
Fetch(d) ==
    /\ pc[d] = "fetch"
    /\ \E answer \in FetchOutcomes :
         LET tasks == fetch_queued_tasks(answer)
         IN /\ fetched' = [fetched EXCEPT ![d] = tasks]
            /\ pc' = [pc EXCEPT ![d] = IF tasks = <<>> THEN "sleep" ELSE "dispatch"]
    /\ last_reap' = [last_reap EXCEPT ![d] = <<>>]
    /\ UNCHANGED <<exec_status, claimed_by, sent_terminal, now, running_tasks, task_details,
                   completed_today, child, last_call, lost_claims, probe,
                   registry_file, registry, task_last_output, pid_file, status_file, host, reg,
                   task_project_paths, git, disk>>

\* ---------------------------------------- write_status_file and time.sleep
SleepWith(d, steps) ==
    /\ pc[d] = "sleep"
    /\ \E dt \in steps :
         /\ now + dt <= MaxTime
         /\ now' = now + dt
    /\ pc' = [pc EXCEPT ![d] = "reap"]
    /\ lost_claims' = [lost_claims EXCEPT ![d] = [cur |-> {}, prev |-> @.cur]]
    /\ last_call' = [last_call EXCEPT ![d] = NoCall]
    /\ status_file' = [status_file EXCEPT ![d] =
                         write_status_file(running_tasks[d], task_details[d], completed_today[d])]
    /\ UNCHANGED <<exec_status, claimed_by, sent_terminal, fetched, running_tasks, task_details,
                   completed_today, child, last_reap, probe,
                   registry_file, registry, task_last_output, pid_file, host, reg,
                   task_project_paths, git, disk>>

Sleep(d) == SleepWith(d, {0} \cup TimeSteps)

\* all daemons wake within the same second (the claim race)
SleepRace(d) == SleepWith(d, {0})

\* The clock also passes the idle threshold.
SleepMon(d) == SleepWith(d, {0, STUCK_IDLE_THRESHOLD + 1} \cup TimeSteps)

\* ----------------------------------------------------- check_running_tasks
Elapsed(d, t) == now - task_details[d][t].started_at

IsTimedOut(d, t) == task_details[d][t].present /\ TimedOut(Elapsed(d, t))

Duration(d, t) == IF task_details[d][t].present THEN Elapsed(d, t) ELSE 0

Exited(d, t) == child[d][t] \in {"exited0", "exitedN"}

\* Faulty variant: a clean exit is reported as completed by the daemon itself.
poll_task_reporting(d, t) ==
    IF IsTimedOut(d, t) THEN <<>>
    ELSE IF child[d][t] = "exited0"
    THEN <<Ev("update_task_status", t, "completed", "", 0),
           Ev("completed_today", t, "completed", "", Duration(d, t))>>
    ELSE IF child[d][t] = "exitedN"
    THEN <<Ev("update_task_status", t, "failed", "Exit code", 0),
           Ev("completed_today", t, "failed", "", Duration(d, t))>>
    ELSE <<>>

\* Faulty variant: the test of the exit code is inverted.
poll_task_inverted(d, t) ==
    IF IsTimedOut(d, t) THEN <<>>
    ELSE IF child[d][t] = "exitedN"
    THEN <<Ev("create_pr_for_task", t, "", "", 0),
           Ev("send_notification", t, "task_complete", "", 0),
           Ev("completed_today", t, "completed", "", Duration(d, t))>>
    ELSE IF child[d][t] = "exited0"
    THEN <<Ev("update_task_status", t, "failed", "Exit code", 0),
           Ev("send_notification", t, "task_failed", "", 0),
           Ev("completed_today", t, "failed", "", Duration(d, t))>>
    ELSE <<>>

\* First loop: a task past the timeout is set aside before its process is
\* polled; otherwise an exit that poll() reports is handled.
poll_task(d, t) ==
    IF IsTimedOut(d, t) THEN <<>>
    ELSE IF child[d][t] = "exited0"
    THEN <<Ev("create_pr_for_task", t, "", "", 0),
           Ev("send_notification", t, "task_complete", "", 0),
           Ev("completed_today", t, "completed", "", Duration(d, t))>>
    ELSE IF child[d][t] = "exitedN"
    THEN <<Ev("update_task_status", t, "failed", "Exit code", 0),
           Ev("send_notification", t, "task_failed", "", 0),
           Ev("completed_today", t, "failed", "", Duration(d, t))>>
    ELSE <<>>

\* The stdout lines a pass can find for one task: each holds a stuck pattern
\* or does not (fewer lines than the 100 one pass reads at most).
StdoutLines == UNION {[1..n -> {"plain", "stuck"}] : n \in 0..MaxLines}

\* The calls made for the lines read: a line with a stuck pattern sets the
\* phase and notifies.
monitor_task_stdout(t, lines) ==
    Flatten([i \in 1..Len(lines) |->
        IF lines[i] = "stuck"
        THEN <<Ev("update_task_detail", t, "stuck", "", 0),
               Ev("send_notification", t, "needs_input", "", 0)>>
        ELSE <<>>])

\* task_last_output[t] as monitor_task_stdout leaves it.
LastOutput(d, t, lines) ==
    IF lines # <<>> \/ task_last_output[d][t] = -1 THEN now ELSE task_last_output[d][t]

check_task_idle(elapsed) == elapsed > STUCK_IDLE_THRESHOLD

\* Faulty variant: an idle child is terminated.
watch_task_killing(d, t, lines) ==
    IF IsTimedOut(d, t) THEN <<>>
    ELSE monitor_task_stdout(t, lines)
         \o (IF check_task_idle(now - LastOutput(d, t, lines))
             THEN <<Ev("update_task_detail", t, "idle", "", 0), Ev("terminate", t, "", "", 0)>>
             ELSE <<>>)
         \o poll_task(d, t)

\* First loop, one task: the timeout test, the stdout monitor, the idle test,
\* the poll.
watch_task(d, t, lines) ==
    IF IsTimedOut(d, t) THEN <<>>
    ELSE monitor_task_stdout(t, lines)
         \o (IF check_task_idle(now - LastOutput(d, t, lines))
             THEN <<Ev("update_task_detail", t, "idle", "", 0)>> ELSE <<>>)
         \o poll_task(d, t)

\* Second loop: terminate, wait 5 s, kill when the wait times out (t in
\* killed), report failed, record the timeout.
handle_timeout(d, t, killed) ==
    <<Ev("terminate", t, "", "", 0)>>
    \o (IF t \in killed THEN <<Ev("kill", t, "", "", 0)>> ELSE <<>>)
    \o <<Ev("update_task_status", t, "failed", "timed out", Duration(d, t)),
         Ev("send_notification", t, "task_timeout", "", 0),
         Ev("completed_today", t, "timeout", "", Duration(d, t))>>

\* Faulty variant: the worktree is removed and the table entry is kept.
remove_nothing(t) == <<Ev("cleanup_worktree", t, "", "", 0)>>

\* Third loop: drop the task from every table and remove its worktree.
remove_completed(t) ==
    <<Ev("del_running_tasks", t, "", "", 0), Ev("cleanup_worktree", t, "", "", 0)>>

check_running_tasks(d, killed, out) ==
    LET rt == running_tasks[d]
        timed_out == SelectSeq(rt, LAMBDA t : IsTimedOut(d, t))
        completed == SelectSeq(rt, LAMBDA t : ~IsTimedOut(d, t) /\ Exited(d, t)) \o timed_out
    IN Flatten([i \in 1..Len(rt) |-> watch_task(d, rt[i], out[rt[i]])])
       \o Flatten([i \in 1..Len(timed_out) |-> handle_timeout(d, timed_out[i], killed)])
       \o Flatten([i \in 1..Len(completed) |-> remove_completed(completed[i])])

\* The completed_today entries a trace appends, in order.
Entries(tr) ==
    LET es == SelectSeq(tr, LAMBDA e : e.ev = "completed_today")
    IN [i \in 1..Len(es) |-> [display_number |-> es[i].task,
                              status |-> es[i].status,
                              duration_seconds |-> es[i].num]]

\* The child's process state after the calls of tr on it.
ChildAfter(state, tr, t) ==
    IF state # "alive" THEN (IF HasEv(tr, "completed_today", t) THEN "reaped" ELSE state)
    ELSE IF HasEv(tr, "kill", t) THEN "killed"
    ELSE IF HasEv(tr, "terminate", t) THEN "terminated"
    ELSE state

\* No child prints anything.
SilentOut == [t \in Tasks |-> <<>>]

\* The running children print any lines.
StdoutOf(d) ==
    LET running == {t \in Tasks : InSeq(running_tasks[d], t)}
    IN {[t \in Tasks |-> IF t \in running THEN f[t] ELSE <<>>] : f \in [running -> StdoutLines]}

HasCleanup(tr) == \E i \in 1..Len(tr) : tr[i].ev = "cleanup_worktree"

\* One check_running_tasks call; outs is what the children may have printed,
\* removals how "git worktree remove" may end.
ReapPart(d, outs, removals) ==
    /\ pc[d] = "reap"
    /\ \E killed \in SUBSET {t \in Tasks : InSeq(running_tasks[d], t) /\ IsTimedOut(d, t)
                                            /\ child[d][t] = "alive"}, out \in outs :
         \E tr \in {check_running_tasks(d, killed, out)} :
            /\ \E removed \in IF HasCleanup(tr) THEN removals ELSE {TRUE} :
                   git' = [git EXCEPT ![d] = GitAfter(@, tr, d, task_project_paths[d], removed)]
            /\ task_project_paths' = [task_project_paths EXCEPT ![d] =
                                         [t \in Tasks |-> IF HasEv(tr, "del_running_tasks", t)
                                                          THEN NoProject ELSE @[t]]]
            /\ exec_status' = [t \in Tasks |-> ApplyUpdates(exec_status[t], tr, t)]
            /\ sent_terminal' = [t \in Tasks |-> sent_terminal[t] + Terminals(tr, t)]
            /\ running_tasks' = [running_tasks EXCEPT ![d] =
                                  SelectSeq(@, LAMBDA t : ~HasEv(tr, "del_running_tasks", t))]
            /\ task_details' = [task_details EXCEPT ![d] =
                                  [t \in Tasks |-> IF HasEv(tr, "del_running_tasks", t)
                                                   THEN NoDetail ELSE ApplyDetails(@[t], tr, t)]]
            /\ task_last_output' = [task_last_output EXCEPT ![d] =
                                      [t \in Tasks |->
                                          IF HasEv(tr, "del_running_tasks", t) THEN -1
                                          ELSE IF InSeq(running_tasks[d], t)
                                          THEN LastOutput(d, t, out[t]) ELSE @[t]]]
            /\ completed_today' = [completed_today EXCEPT ![d] = @ \o Entries(tr)]
            /\ child' = [child EXCEPT ![d] = [t \in Tasks |-> ChildAfter(@[t], tr, t)]]
            /\ last_reap' = [last_reap EXCEPT ![d] = tr]
            /\ status_file' = [status_file EXCEPT ![d] =
                                 IF \E i \in 1..Len(tr) :
                                        tr[i].ev \in {"update_task_detail", "del_running_tasks"}
                                 THEN write_status_file(running_tasks'[d], task_details'[d],
                                                        completed_today'[d])
                                 ELSE @]
    /\ pc' = [pc EXCEPT ![d] = "fetch"]
    /\ UNCHANGED <<claimed_by, now, fetched, last_call, lost_claims, probe,
                   registry_file, registry, pid_file, host, reg, disk>>

ReapWith(d, outs) == ReapPart(d, outs, {TRUE})

Reap(d) == ReapWith(d, {SilentOut})

\* git may fail to remove a worktree.
ReapGit(d) == ReapPart(d, {SilentOut}, BOOLEAN)

ReapMon(d) == ReapWith(d, StdoutOf(d))

\* ------------------------------------------------------------ environment
\* The child of task t exits.  With a clean exit the assistant's session-end
\* hook may have posted the result (status completed) before.
ChildExit(d, t) ==
    /\ child[d][t] = "alive"
    /\ \E how \in {"exited0", "exited0_hook", "exitedN"} :
         /\ child' = [child EXCEPT ![d][t] = IF how = "exitedN" THEN "exitedN" ELSE "exited0"]
         /\ exec_status' = [exec_status EXCEPT ![t] = IF how = "exited0_hook" THEN "completed" ELSE @]
         /\ sent_terminal' = [sent_terminal EXCEPT ![t] = IF how = "exited0_hook" THEN @ + 1 ELSE @]
    /\ UNCHANGED <<claimed_by, now, pc, fetched, running_tasks, task_details, completed_today,
                   last_call, last_reap, lost_claims, probe,
                   registry_file, registry, task_last_output, pid_file, status_file, host, reg,
                   task_project_paths, git, disk>>

\* ---------------------------------------------------------------- cleanup
\* The handler of SIGTERM and SIGINT: terminate the processes of the running
\* table, unlink the pid file and the status file, exit with code 0.
cleanup(d) ==
    [i \in 1..Len(running_tasks[d]) |-> Ev("terminate", running_tasks[d][i], "", "", 0)]
    \o <<Ev("unlink", 0, "PID_FILE", "", 0), Ev("unlink", 0, "STATUS_FILE", "", 0),
         Ev("sys.exit", 0, "", "", 0)>>

\* A signal reaches daemon d, wherever it is in its loop.
Signal(d) ==
    /\ pc[d] \notin {"off", "exited", "crashed"}
    /\ \E tr \in {cleanup(d)} :
         /\ child' = [child EXCEPT ![d] = [t \in Tasks |-> ChildAfter(@[t], tr, t)]]
         /\ pid_file' = [pid_file EXCEPT ![d] =
                           IF \E i \in 1..Len(tr) : tr[i] = Ev("unlink", 0, "PID_FILE", "", 0)
                           THEN FALSE ELSE @]
         /\ status_file' = [status_file EXCEPT ![d] =
                              IF \E i \in 1..Len(tr) : tr[i] = Ev("unlink", 0, "STATUS_FILE", "", 0)
                              THEN NoStatus ELSE @]
         /\ last_call' = [last_call EXCEPT ![d] = [task |-> 0, events |-> tr]]
    /\ pc' = [pc EXCEPT ![d] = "exited"]
    /\ UNCHANGED <<exec_status, claimed_by, sent_terminal, now, fetched, running_tasks,
                   task_details, completed_today, last_reap, lost_claims, probe,
                   registry_file, registry, task_last_output, host, reg, task_project_paths, git,
                   disk>>

\* --------------------------------------------------------- the main loop
\* The body of the loop (check_running_tasks, fetch_queued_tasks, the
\* execute_task calls, write_status_file) is in a try; time.sleep follows the
\* try.  An exception of the body is known here by the step it was raised in.
\* except Exception: log(...) and control falls to time.sleep.  log prints to
\* stdout outside any try (201); when that print raises, the exception leaves
\* the handler and the loop, and the process ends without cleanup.
main_loop_except(events, log_ok) ==
    IF log_ok
    THEN [pc |-> "caught", events |-> Append(events, Ev("log", 0, "Error in main loop", "", 0))]
    ELSE [pc |-> "crashed", events |-> Append(events, Ev("raise", 0, "log", "", 0))]

\* A step of the body raises before it has changed anything; the rest of the
\* body, the status write included, is not run.
Raise(d) ==
    /\ pc[d] \in {"reap", "fetch", "dispatch"}
    /\ \E log_ok \in BOOLEAN :
       \E r \in {main_loop_except(<<Ev("raise", 0, pc[d], "", 0)>>, log_ok)} :
         /\ pc' = [pc EXCEPT ![d] = r.pc]
         /\ last_call' = [last_call EXCEPT ![d] = [task |-> 0, events |-> r.events]]
    /\ fetched' = [fetched EXCEPT ![d] = <<>>]
    /\ UNCHANGED <<exec_status, claimed_by, sent_terminal, now, running_tasks, task_details,
                   completed_today, child, last_reap, lost_claims, probe, registry_file,
                   registry, task_last_output, pid_file, status_file, host, reg,
                   task_project_paths, git, disk>>

\* time.sleep after a caught exception; the status file is not written.
SleepAfterError(d) ==
    /\ pc[d] = "caught"
    /\ \E dt \in {0} \cup TimeSteps :
         /\ now + dt <= MaxTime
         /\ now' = now + dt
    /\ pc' = [pc EXCEPT ![d] = "reap"]
    /\ lost_claims' = [lost_claims EXCEPT ![d] = [cur |-> {}, prev |-> @.cur]]
    /\ last_call' = [last_call EXCEPT ![d] = NoCall]
    /\ UNCHANGED <<exec_status, claimed_by, sent_terminal, fetched, running_tasks, task_details,
                   completed_today, child, last_reap, probe, registry_file, registry,
                   task_last_output, pid_file, status_file, host, reg, task_project_paths, git,
                   disk>>

\* The end of a body whose write_status_file fails (the temp file cannot be
\* opened, written or renamed): the function swallows the exception, the file
\* keeps what it held, and the loop sleeps.
SleepWriteFailed(d) ==
    /\ pc[d] = "sleep"
    /\ \E dt \in {0} \cup TimeSteps :
         /\ now + dt <= MaxTime
         /\ now' = now + dt
    /\ pc' = [pc EXCEPT ![d] = "reap"]
    /\ lost_claims' = [lost_claims EXCEPT ![d] = [cur |-> {}, prev |-> @.cur]]
    /\ last_call' = [last_call EXCEPT ![d] =
                       [task |-> 0, events |-> <<Ev("raise", 0, "write_status_file", "", 0)>>]]
    /\ UNCHANGED <<exec_status, claimed_by, sent_terminal, fetched, running_tasks, task_details,
                   completed_today, child, last_reap, probe, registry_file, registry,
                   task_last_output, pid_file, status_file, host, reg, task_project_paths, git,
                   disk>>

\* A machine outside Daemons wins the claim of a queued task.
OtherMachineClaims(t) ==
    /\ atomic_update_applies(exec_status[t])
    /\ exec_status' = [exec_status EXCEPT ![t] = "running"]
    /\ claimed_by' = [claimed_by EXCEPT ![t] = -1]
    /\ UNCHANGED <<sent_terminal, now, pc, fetched, running_tasks, task_details, completed_today,
                   child, last_call, last_reap, lost_claims, probe,
                   registry_file, registry, task_last_output, pid_file, status_file, host, reg,
                   task_project_paths, git, disk>>

\* The server lists a task it holds as running among the queued ones again.
Requeue(t) ==
    /\ exec_status[t] = "running"
    /\ exec_status' = [exec_status EXCEPT ![t] = "queued"]
    /\ claimed_by' = [claimed_by EXCEPT ![t] = 0]
    /\ UNCHANGED <<sent_terminal, now, pc, fetched, running_tasks, task_details, completed_today,
                   child, last_call, last_reap, lost_claims, probe,
                   registry_file, registry, task_last_output, pid_file, status_file, host, reg,
                   task_project_paths, git, disk>>

\* A foreground tool, a process of its own, registers the project of task t:
\* ProjectRegistry.register writes the file; the singleton a running daemon
\* loaded at its start is not touched.
Register(t) ==
    /\ t \notin registry_file
    /\ registry_file' = registry_file \cup {t}
    /\ UNCHANGED <<exec_status, claimed_by, sent_terminal, now, pc, fetched, running_tasks,
                   task_details, completed_today, child, last_call, last_reap, lost_claims,
                   probe, registry, task_last_output, pid_file, status_file, host, reg,
                   task_project_paths, git, disk>>

\* The variables of the daemons and the server.
DaemonVars ==
    <<exec_status, claimed_by, sent_terminal, now, pc, fetched, running_tasks, task_details,
      completed_today, child, last_call, last_reap, lost_claims, registry_file, registry,
      task_last_output, pid_file, status_file,
      task_project_paths, git>>

\* ----------------------------------------------------------- get_git_remote
\* A string is the sequence of its characters.
Https == <<"h", "t", "t", "p", "s", ":", "/", "/">>

Http == <<"h", "t", "t", "p", ":", "/", "/">>

GitAt == <<"g", "i", "t", "@">>

SshGitAt == <<"s", "s", "h", ":", "/", "/", "g", "i", "t", "@">>

DotGit == <<".", "g", "i", "t">>

\* for prefix in ["https://", "http://", "git@", "ssh://git@"]
Prefixes == <<Https, Http, GitAt, SshGitAt>>

StartsWith(url, prefix) ==
    Len(url) >= Len(prefix) /\ SubSeq(url, 1, Len(prefix)) = prefix

EndsWith(url, suffix) ==
    Len(url) >= Len(suffix) /\ SubSeq(url, Len(url) - Len(suffix) + 1, Len(url)) = suffix

Contains(url, part) ==
    \E i \in 1..(Len(url) - Len(part) + 1) : SubSeq(url, i, i + Len(part) - 1) = part

\* The first prefix of the list that the url starts with is removed.
StripPrefix(url) ==
    IF \E k \in 1..Len(Prefixes) : StartsWith(url, Prefixes[k])
    THEN LET k == CHOOSE j \in 1..Len(Prefixes) :
                      /\ StartsWith(url, Prefixes[j])
                      /\ \A i \in 1..(j - 1) : ~StartsWith(url, Prefixes[i])
         IN SubSeq(url, Len(Prefixes[k]) + 1, Len(url))
    ELSE url

\* url.replace(":", "/", 1)
ReplaceFirstColon(url) ==
    LET i == CHOOSE j \in 1..Len(url) : url[j] = ":" /\ \A k \in 1..(j - 1) : url[k] # ":"
    IN [url EXCEPT ![i] = "/"]

StripDotGit(url) == IF EndsWith(url, DotGit) THEN SubSeq(url, 1, Len(url) - 4) ELSE url

\* The three normalisation steps of get_git_remote.
Normalize(url) ==
    LET stripped == StripPrefix(url)
        slashed == IF Contains(stripped, <<":">>) /\ ~Contains(stripped, <<":", "/", "/">>)
                   THEN ReplaceFirstColon(stripped)
                   ELSE stripped
    IN StripDotGit(slashed)

\* get_git_remote of the daemon: None when git fails, else the normalised
\* output of "git remote get-url origin".  The output holds no white space here.
get_git_remote(returncode, stdout) ==
    IF returncode # 0 THEN [none |-> TRUE, url |-> <<>>]
    ELSE [none |-> FALSE, url |-> Normalize(stdout)]

\* The pieces remote URLs are put together from.
Pieces == {Https, Http, GitAt, SshGitAt, DotGit, <<":">>, <<"/">>, <<"h">>, <<"r">>}

Urls == {Flatten(ps) : ps \in UNION {[1..n -> Pieces] : n \in 0..MaxPieces}}

\* Stage 0: git has printed stdout.  Stage 1: get_git_remote has returned
\* result.  Stage 2: the result has been normalised once more.
UrlInputs ==
    [returncode : {0, 1}, stdout : Urls, stage : {0},
     result : {[none |-> TRUE, url |-> <<>>]}, again : {<<>>}]

GetGitRemote ==
    /\ probe.stage = 0
    /\ probe' = [probe EXCEPT !.stage = 1,
                              !.result = get_git_remote(probe.returncode, probe.stdout)]
    /\ UNCHANGED <<DaemonVars, reg, host, disk>>

\* A caller normalises a value that get_git_remote has returned.
NormalizeAgain ==
    /\ probe.stage = 1
    /\ ~probe.result.none
    /\ probe' = [probe EXCEPT !.stage = 2, !.again = Normalize(probe.result.url)]
    /\ UNCHANGED <<DaemonVars, reg, host, disk>>

\* -------------------------------------------------------- ProjectRegistry
\* _data of a ProjectRegistry: "projects" is a dict, kept here as the sequence
\* of its entries in insertion order.  Remotes and paths are numbered from 1,
\* None stands for Python's None; times are readings of the clock.  The file
\* is <<>> while it does not exist, else the one document it holds.
None == 0

Remotes == 1..NumRemotes

Paths == 1..NumPaths

EmptyData == [projects |-> <<>>, default_project |-> None]

NoReg == [data |-> EmptyData, file |-> <<>>, clock |-> 0]

Keys(data) == {data.projects[i].git_remote : i \in 1..Len(data.projects)}

IndexOf(data, r) == CHOOSE i \in 1..Len(data.projects) : data.projects[i].git_remote = r

\* Faulty variant: a second registration moves the entry to the end.
register_moving(data, r, p, t) ==
    LET others == SelectSeq(data.projects, LAMBDA e : e.git_remote # r)
    IN [data |-> [projects |-> Append(others, [git_remote |-> r, local_path |-> p,
                                               registered_at |-> t, last_used |-> t]),
                  default_project |-> IF data.default_project = None THEN r
                                      ELSE data.default_project],
        result |-> r \notin Keys(data), saved |-> TRUE]

register(data, r, p, t) ==
    LET is_new == r \notin Keys(data)
        projects == IF is_new
                    THEN Append(data.projects, [git_remote |-> r, local_path |-> p,
                                                registered_at |-> t, last_used |-> t])
                    ELSE [data.projects EXCEPT ![IndexOf(data, r)].local_path = p,
                                               ![IndexOf(data, r)].last_used = t]
    IN [data |-> [projects |-> projects,
                  default_project |-> IF data.default_project = None THEN r
                                      ELSE data.default_project],
        result |-> is_new, saved |-> TRUE]

get_path(data, r, t) ==
    IF r \in Keys(data)
    THEN [data |-> [data EXCEPT !.projects[IndexOf(data, r)].last_used = t],
          result |-> data.projects[IndexOf(data, r)].local_path, saved |-> TRUE]
    ELSE [data |-> data, result |-> None, saved |-> FALSE]

get_path_without_update(data, r) ==
    [data |-> data,
     result |-> IF r \in Keys(data) THEN data.projects[IndexOf(data, r)].local_path ELSE None,
     saved |-> FALSE]

\* Faulty variant: the default is left dangling.
unregister_plain(data, r) ==
    IF r \in Keys(data)
    THEN [data |-> [data EXCEPT !.projects = SelectSeq(@, LAMBDA e : e.git_remote # r)],
          result |-> TRUE, saved |-> TRUE]
    ELSE [data |-> data, result |-> FALSE, saved |-> FALSE]

unregister(data, r) ==
    IF r \in Keys(data)
    THEN LET remaining == SelectSeq(data.projects, LAMBDA e : e.git_remote # r)
         IN [data |-> [projects |-> remaining,
                       default_project |->
                           IF data.default_project = r
                           THEN (IF remaining # <<>> THEN remaining[1].git_remote ELSE None)
                           ELSE data.default_project],
             result |-> TRUE, saved |-> TRUE]
    ELSE [data |-> data, result |-> FALSE, saved |-> FALSE]

set_default_project(data, r) ==
    IF r \in Keys(data)
    THEN [data |-> [data EXCEPT !.default_project = r], result |-> TRUE, saved |-> TRUE]
    ELSE [data |-> data, result |-> FALSE, saved |-> FALSE]

\* What validate_paths finds at a path.
PathStates == {"ok", "path_not_found", "not_a_directory", "not_a_git_repo"}

\* Faulty variant: the invalid entries are dropped.
validate_paths_pruning(data, fs) ==
    LET invalid == SelectSeq(data.projects, LAMBDA e : fs[e.local_path] # "ok")
    IN [data |-> [data EXCEPT !.projects = SelectSeq(@, LAMBDA e : fs[e.local_path] = "ok")],
        result |-> [i \in 1..Len(invalid) |->
                      [git_remote |-> invalid[i].git_remote,
                       local_path |-> invalid[i].local_path,
                       reason |-> fs[invalid[i].local_path]]],
        saved |-> TRUE]

validate_paths(data, fs) ==
    LET invalid == SelectSeq(data.projects, LAMBDA e : fs[e.local_path] # "ok")
    IN [data |-> data,
        result |-> [i \in 1..Len(invalid) |->
                      [git_remote |-> invalid[i].git_remote,
                       local_path |-> invalid[i].local_path,
                       reason |-> fs[invalid[i].local_path]]],
        saved |-> FALSE]

\* The latest call, the registry before it, and whether the call made before it
\* was the same call.
NoRegCall ==
    [op |-> "", git_remote |-> None, local_path |-> None, result |-> None, before |-> NoReg,
     again |-> FALSE]

\* One call on the registry: its outcome r, whether it read the clock.
RegCall(op, remote, path, r, timed) ==
    /\ reg' = [data |-> r.data,
               file |-> IF r.saved THEN <<r.data>> ELSE reg.file,
               clock |-> IF timed THEN reg.clock + 1 ELSE reg.clock]
    /\ probe' = [op |-> op, git_remote |-> remote, local_path |-> path, result |-> r.result,
                 before |-> reg,
                 again |-> probe.op = op /\ probe.git_remote = remote
                                         /\ probe.local_path = path]
    /\ UNCHANGED <<DaemonVars, host, disk>>

RegRegister(r, p) ==
    /\ reg.clock < MaxRegClock
    /\ RegCall("register", r, p, register(reg.data, r, p, reg.clock + 1), TRUE)

RegResolve(r) ==
    /\ reg.clock < MaxRegClock
    /\ RegCall("get_path", r, None, get_path(reg.data, r, reg.clock + 1), TRUE)

RegPeek(r) ==
    RegCall("get_path_without_update", r, None, get_path_without_update(reg.data, r), FALSE)

RegUnregister(r) == RegCall("unregister", r, None, unregister(reg.data, r), FALSE)

RegSetDefault(r) ==
    RegCall("set_default_project", r, None, set_default_project(reg.data, r), FALSE)

\* validate_paths looks at the registered paths only; fs is what it finds there.
RegValidate ==
    \E fs \in [Paths -> PathStates] :
        /\ \A p \in Paths : fs[p] # "ok" =>
               \E i \in 1..Len(reg.data.projects) : reg.data.projects[i].local_path = p
        /\ RegCall("validate_paths", None, None, validate_paths(reg.data, fs), FALSE)

\* ----------------------------------------------------------- daemon_health
\* The machine as daemon_health.py sees it.  A daemon process is "starting"
\* from its Popen until main() has installed the handlers and written the pid
\* and version files, then "running"; signalled holds the processes a SIGTERM
\* was sent to and has not been handled by yet.
Pids == 1..MaxPids

Versions == {"1.7.2", "1.8.0"}

NoHost ==
    [procs |-> [p \in Pids |-> "none"], loaded |-> [p \in Pids |-> "none"],
     signalled |-> {}, pid_file |-> 0, version_file |-> "none",
     installed |-> "1.7.2", script |-> TRUE]

\* The foreground tools are not in use.
NoTools == host = NoHost /\ reg = NoReg

\* The top-level assignments of DAEMON_VERSION in daemon.py: there is none,
\* the daemon takes its version from plugin.json (get_plugin_version).
DaemonVersionLines == {}

\* The module-level parse of daemon.py for DAEMON_VERSION.
EXPECTED_DAEMON_VERSION ==
    IF DaemonVersionLines = {} THEN "None" ELSE CHOOSE v \in DaemonVersionLines : TRUE

Alive(h, p) == p \in Pids /\ h.procs[p] \in {"starting", "running"}

\* The pid file exists and os.kill(pid, 0) finds the process.
is_daemon_running(h) == h.pid_file # 0 /\ Alive(h, h.pid_file)

get_running_daemon_version(h) == IF h.version_file = "none" THEN "None" ELSE h.version_file

is_daemon_outdated(h) ==
    IF EXPECTED_DAEMON_VERSION = "None" THEN FALSE
    ELSE IF ~is_daemon_running(h) THEN FALSE
    ELSE IF get_running_daemon_version(h) = "None" THEN TRUE
    ELSE get_running_daemon_version(h) # EXPECTED_DAEMON_VERSION

\* stop_daemon: SIGTERM to the recorded pid, then unlink the pid file.
stop_daemon(h) ==
    IF h.pid_file = 0 THEN [calls |-> <<>>, result |-> FALSE, host |-> h]
    ELSE [calls |-> <<Ev("os.kill", h.pid_file, "SIGTERM", "", 0),
                      Ev("unlink", 0, "DAEMON_PID", "", 0)>>,
          result |-> Alive(h, h.pid_file),
          host |-> [h EXCEPT !.signalled = IF Alive(h, h.pid_file)
                                            THEN @ \cup {h.pid_file} ELSE @,
                             !.pid_file = 0]]

FreePids(h) == {p \in Pids : h.procs[p] = "none"}

\* start_daemon: Popen of the daemon script, then the pid file is written.
start_daemon(h) ==
    LET p == CHOOSE q \in FreePids(h) : \A o \in FreePids(h) : q <= o
    IN [calls |-> <<Ev("Popen", p, "daemon.py", "", 0),
                    Ev("write_text", p, "DAEMON_PID", "", 0)>>,
        result |-> TRUE,
        host |-> [h EXCEPT !.procs[p] = "starting", !.pid_file = p]]

\* Faulty variant: the daemon is restarted whenever the call is made.
ensure_daemon_running_anew(h, popen_ok) ==
    LET stopped == stop_daemon(h)
        started == start_daemon(stopped.host)
    IN IF ~h.script \/ ~popen_ok
       THEN [calls |-> stopped.calls \o <<Ev("return", 0, "False", "", 0)>>,
             result |-> FALSE, host |-> stopped.host]
       ELSE [calls |-> stopped.calls \o started.calls \o <<Ev("return", 0, "True", "", 0)>>,
             result |-> TRUE, host |-> started.host]

ensure_daemon_running(h, popen_ok) ==
    LET stopped == IF is_daemon_outdated(h) THEN stop_daemon(h)
                   ELSE [calls |-> <<>>, result |-> FALSE, host |-> h]
        h1 == stopped.host
        probed == IF h1.pid_file = 0 THEN <<>>
                  ELSE <<Ev("os.kill", h1.pid_file, "0", "", 0)>>
        started == start_daemon(h1)
    IN IF is_daemon_running(h1)
       THEN [calls |-> stopped.calls \o probed \o <<Ev("return", 0, "True", "", 0)>>,
             result |-> TRUE, host |-> h1]
       ELSE IF ~h1.script
       THEN [calls |-> stopped.calls \o probed \o <<Ev("return", 0, "False", "", 0)>>,
             result |-> FALSE, host |-> h1]
       ELSE IF ~popen_ok
       THEN [calls |-> stopped.calls \o probed
                       \o <<Ev("Popen", 0, "failed", "", 0), Ev("return", 0, "False", "", 0)>>,
             result |-> FALSE, host |-> h1]
       ELSE [calls |-> stopped.calls \o probed \o started.calls
                       \o <<Ev("return", 0, "True", "", 0)>>,
             result |-> TRUE, host |-> started.host]

NoHealthCall == [calls |-> <<>>, result |-> FALSE, before |-> NoHost, applied |-> FALSE]

OtherVars == <<DaemonVars, reg>>

\* A foreground tool calls ensure_daemon_running.
EnsureRunning ==
    /\ FreePids(host) # {}
    /\ \E popen_ok \in BOOLEAN :
         \E r \in {ensure_daemon_running(host, popen_ok)} :
            /\ host' = r.host
            /\ probe' = [calls |-> r.calls, result |-> r.result, before |-> host,
                         applied |-> TRUE]
    /\ UNCHANGED <<OtherVars, disk>>

\* daemon_health.py --stop.
StopDaemon ==
    /\ host' = stop_daemon(host).host
    /\ probe' = NoHealthCall
    /\ UNCHANGED <<OtherVars, disk>>

\* main() of a started daemon: the handlers, the pid file, the version file
\* (the plugin version it finds installed).
DaemonMain(p) ==
    /\ host.procs[p] = "starting"
    /\ p \notin host.signalled
    /\ host' = [host EXCEPT !.procs[p] = "running", !.loaded[p] = host.installed,
                            !.pid_file = p, !.version_file = host.installed]
    /\ UNCHANGED <<probe, OtherVars, disk>>

\* A SIGTERM is handled: cleanup unlinks the pid file and exits; a process
\* that has not installed its handler yet just dies.
DaemonCleanup(p) ==
    /\ p \in host.signalled
    /\ host' = [host EXCEPT !.procs[p] = "dead", !.signalled = @ \ {p},
                            !.pid_file = IF host.procs[p] = "running" THEN 0 ELSE @]
    /\ UNCHANGED <<probe, OtherVars, disk>>

\* A daemon dies without running its handler (SIGKILL, power loss).
DaemonCrash(p) ==
    /\ Alive(host, p)
    /\ host' = [host EXCEPT !.procs[p] = "dead", !.signalled = @ \ {p}]
    /\ UNCHANGED <<probe, OtherVars, disk>>

\* The plugin is updated, or removed or put back, under a running daemon.
Install ==
    /\ \E v \in Versions, s \in BOOLEAN :
         /\ <<v, s>> # <<host.installed, host.script>>
         /\ host' = [host EXCEPT !.installed = v, !.script = s]
    /\ UNCHANGED <<probe, OtherVars, disk>>

\* -------------------------------------------------- the status file on disk
\* STATUS_FILE and the temp file STATUS_FILE.with_suffix(".tmp") are two names
\* in ~/.push, the same for every daemon process of the machine.  A name
\* holds a file (numbered from 1) or nothing (0); a file is the sequence of
\* the pieces written to it, a piece being known by the process that wrote it
\* and its place in that process's snapshot.  An open file stays readable and
\* writable after its name is gone or names another file.
Inodes == 1..MaxInodes

Hole == [w |-> 0, part |-> 0]

Closed == [pc |-> "idle", fd |-> 0, off |-> 0]

NoDisk ==
    [tmp |-> 0, status |-> 0, data |-> [i \in Inodes |-> <<>>],
     w |-> [p \in Pids |-> Closed],
     r |-> [pc |-> "idle", fd |-> 0, seen |-> <<>>]]

\* The files a name or an open handle refers to.
InUse(dk) ==
    ({dk.tmp, dk.status, dk.r.fd} \cup {dk.w[p].fd : p \in Pids}) \ {0}

\* A file no name and no handle refers to is gone.
Gc(dk) == [dk EXCEPT !.data = [i \in Inodes |-> IF i \in InUse(dk) THEN @[i] ELSE <<>>]]

\* A file holding exactly the snapshot of one write_status_file call.
Complete(content) ==
    /\ Len(content) = NumChunks
    /\ \A i \in 1..NumChunks : content[i].part = i /\ content[i].w = content[1].w
    /\ content[1].w # 0

\* write() at an offset.
WriteAt(content, pos, chunk) ==
    [i \in 1..(IF Len(content) > pos THEN Len(content) ELSE pos) |->
        IF i = pos THEN chunk ELSE IF i <= Len(content) THEN content[i] ELSE Hole]

\* open(temp_file, "w"): the file the name holds is emptied, or a new file is
\* made.
open_temp(dk, p, fresh) ==
    LET f == IF dk.tmp # 0 THEN dk.tmp ELSE fresh
    IN [dk EXCEPT !.tmp = f, !.data[f] = <<>>,
                  !.w[p] = [pc |-> "open", fd |-> f, off |-> 0]]

\* json.dump: the next piece of the snapshot goes to the open file.
dump_chunk(dk, p) ==
    [dk EXCEPT !.data[dk.w[p].fd] =
                   WriteAt(@, dk.w[p].off + 1, [w |-> p, part |-> dk.w[p].off + 1]),
               !.w[p].off = @ + 1]

\* The with block ends and temp_file.replace(STATUS_FILE) renames the temp
\* name; with no temp name left it raises, which write_status_file swallows.
replace_temp(dk, p) ==
    IF dk.tmp = 0 THEN [dk EXCEPT !.w[p] = Closed]
    ELSE [dk EXCEPT !.status = dk.tmp, !.tmp = 0, !.w[p] = Closed]

\* A running daemon process is somewhere in write_status_file; a signalled
\* process runs its handler before its next statement.
WriteStatusStep(p) ==
    /\ host.procs[p] = "running"
    /\ p \notin host.signalled
    /\ \/ /\ disk.w[p].pc = "idle"
          /\ \E fresh \in Inodes \ InUse(disk) :
               /\ \A o \in Inodes \ InUse(disk) : fresh <= o
               /\ disk' = open_temp(disk, p, fresh)
       \/ /\ disk.w[p].pc = "open" /\ disk.w[p].off < NumChunks
          /\ disk' = dump_chunk(disk, p)
       \/ /\ disk.w[p].pc = "open" /\ disk.w[p].off = NumChunks
          /\ disk' = Gc(replace_temp(disk, p))
    /\ UNCHANGED <<probe, OtherVars, host>>

\* cleanup of a signalled daemon, wherever it is: the pid file and the status
\* file are unlinked and the process exits; what it had open is closed.
CleanupFiles(p) ==
    /\ p \in host.signalled
    /\ host' = [host EXCEPT !.procs[p] = "dead", !.signalled = @ \ {p},
                            !.pid_file = IF host.procs[p] = "running" THEN 0 ELSE @]
    /\ disk' = Gc([disk EXCEPT !.status = IF host.procs[p] = "running" THEN 0 ELSE @,
                               !.w[p] = Closed])
    /\ UNCHANGED <<probe, OtherVars>>

\* read_status of the monitor: exists() and open(), then json.load reads the
\* file piece by piece to its end.
ReadOpen ==
    /\ disk.r.pc # "reading"
    /\ disk.status # 0
    /\ disk' = [disk EXCEPT !.r = [pc |-> "reading", fd |-> disk.status, seen |-> <<>>]]
    /\ UNCHANGED <<probe, OtherVars, host>>

ReadChunk ==
    /\ disk.r.pc = "reading"
    /\ LET content == disk.data[disk.r.fd]
           n == Len(disk.r.seen)
       IN disk' = IF n < Len(content)
                  THEN [disk EXCEPT !.r.seen = Append(@, content[n + 1])]
                  ELSE Gc([disk EXCEPT !.r.pc = "done", !.r.fd = 0])
    /\ UNCHANGED <<probe, OtherVars, host>>

\* The foreground tools, their calls not recorded.
ToolEnsure ==
    /\ FreePids(host) # {}
    /\ host' = ensure_daemon_running(host, TRUE).host
    /\ UNCHANGED <<probe, OtherVars, disk>>

ToolStop ==
    /\ host.pid_file # 0
    /\ host' = stop_daemon(host).host
    /\ UNCHANGED <<probe, OtherVars, disk>>

\* --------------------------------------------------------- specifications
NoProbe == [result |-> NoResponse, global |-> TRUE, analysis |-> NoAnalysis,
            claimed |-> FALSE, mode |-> "", applied |-> FALSE]

\* The daemons in up are started and the tasks in queued are queued; the other
\* tasks were completed before.
InitWith(up, queued, registered) ==
    /\ exec_status = [t \in Tasks |-> IF t \in queued THEN "queued" ELSE "completed"]
    /\ claimed_by = [t \in Tasks |-> 0]
    /\ sent_terminal = [t \in Tasks |-> 0]
    /\ now = 0
    /\ pc = [d \in Daemons |-> IF d \in up THEN "reap" ELSE "off"]
    /\ fetched = [d \in Daemons |-> <<>>]
    /\ running_tasks = [d \in Daemons |-> <<>>]
    /\ task_details = [d \in Daemons |-> [t \in Tasks |-> NoDetail]]
    /\ completed_today = [d \in Daemons |-> <<>>]
    /\ child = [d \in Daemons |-> [t \in Tasks |-> "none"]]
    /\ last_call = [d \in Daemons |-> NoCall]
    /\ last_reap = [d \in Daemons |-> <<>>]
    /\ lost_claims = [d \in Daemons |-> [cur |-> {}, prev |-> {}]]
    /\ registry_file = registered
    /\ registry = [d \in Daemons |-> IF d \in up THEN registered ELSE {}]
    /\ task_last_output = [d \in Daemons |-> [t \in Tasks |-> -1]]
    /\ pid_file = [d \in Daemons |-> d \in up]
    /\ status_file = [d \in Daemons |-> NoStatus]
    /\ task_project_paths = [d \in Daemons |-> [t \in Tasks |-> NoProject]]
    /\ git = [d \in Daemons |-> NoGit]
    /\ disk = NoDisk

\* One daemon, other machines competing for the queue, every input; the
\* project of the first task is registered or not.
Init ==
    \E registered \in {Tasks, Tasks \ {1}} :
        InitWith({1}, {t \in Tasks : t <= QueuedAtStart}, registered) /\ probe = NoProbe /\ NoTools

Next ==
    \/ \E d \in Daemons : Reap(d)
    \/ \E d \in Daemons : Fetch(d)
    \/ \E d \in Daemons : Dispatch(d)
    \/ \E d \in Daemons : Sleep(d)
    \/ \E d \in Daemons, t \in Tasks : ChildExit(d, t)
    \/ \E t \in Tasks : OtherMachineClaims(t)

Spec == Init /\ [][Next]_vars

\* Every daemon polls the same queue.
InitRace == InitWith(Daemons, {t \in Tasks : t <= RaceTasks}, Tasks) /\ probe = NoProbe /\ NoTools

NextRace ==
    \/ \E d \in Daemons : Reap(d)
    \/ \E d \in Daemons : Fetch(d)
    \/ \E d \in Daemons : DispatchRace(d)
    \/ \E d \in Daemons : SleepRace(d)

SpecRace == InitRace /\ [][NextRace]_vars

\* One daemon, every task queued: more work than MAX_CONCURRENT_TASKS slots.
InitCap == InitWith({1}, Tasks, Tasks) /\ probe = NoProbe /\ NoTools

NextCap ==
    \/ \E d \in Daemons : Reap(d)
    \/ \E d \in Daemons : Fetch(d)
    \/ \E d \in Daemons : DispatchCap(d)
    \/ \E d \in Daemons : Sleep(d)

SpecCap == InitCap /\ [][NextCap]_vars

\* One daemon, every task queued, the project of the first task not
\* registered; projects get registered and the first running tasks get queued
\* again while the daemon runs.
InitOps == InitWith({1}, Tasks, Tasks \ {1}) /\ probe = NoProbe /\ NoTools

NextOps ==
    \/ \E d \in Daemons : Reap(d)
    \/ \E d \in Daemons : Fetch(d)
    \/ \E d \in Daemons : DispatchOps(d)
    \/ \E d \in Daemons : SleepRace(d)
    \/ \E t \in 1..RequeuedTasks : Requeue(t)
    \/ \E t \in Tasks : Register(t)

SpecOps == InitOps /\ [][NextOps]_vars

\* One daemon that a signal can reach at any point of its loop, the point
\* between Popen and the entry in the running table included.
InitSig == InitWith({1}, {t \in Tasks : t <= QueuedAtStart}, Tasks) /\ probe = NoProbe /\ NoTools

NextSig ==
    \/ \E d \in Daemons : Reap(d)
    \/ \E d \in Daemons : Fetch(d)
    \/ \E d \in Daemons : DispatchCap(d)
    \/ \E d \in Daemons : Spawn(d)
    \/ \E d \in Daemons : Record(d)
    \/ \E d \in Daemons : Sleep(d)
    \/ \E d \in Daemons, t \in Tasks : ChildExit(d, t)
    \/ \E d \in Daemons : Signal(d)

SpecSig == InitSig /\ [][NextSig]_vars

\* The daemon's life on one machine under the foreground tools.
InitHealth == InitWith({}, {}, {}) /\ probe = NoHealthCall /\ NoTools

NextHealth ==
    \/ EnsureRunning
    \/ StopDaemon
    \/ Install
    \/ \E p \in Pids : DaemonMain(p)
    \/ \E p \in Pids : DaemonCleanup(p)
    \/ \E p \in Pids : DaemonCrash(p)

SpecHealth == InitHealth /\ [][NextHealth]_vars

\* One daemon whose first task, after a clean exit that reported nothing, is
\* listed as queued again and again, until the completed list is longer than
\* what the status file shows.
RequeueCompleted ==
    /\ Len(completed_today[1]) < MaxCompleted
    /\ Requeue(1)

InitStatus ==
    InitWith({1}, {t \in Tasks : t <= QueuedAtStart}, Tasks) /\ probe = NoProbe /\ NoTools

NextStatus ==
    \/ \E d \in Daemons : Reap(d)
    \/ \E d \in Daemons : Fetch(d)
    \/ \E d \in Daemons : DispatchCap(d)
    \/ \E d \in Daemons : SleepRace(d)
    \/ \E d \in Daemons, t \in Tasks : ChildExit(d, t)
    \/ RequeueCompleted

SpecStatus == InitStatus /\ [][NextStatus]_vars

\* One daemon, its children exiting or timing out, and git removing their
\* worktrees or failing to.
InitGit ==
    InitWith({1}, {t \in Tasks : t <= QueuedAtStart}, Tasks) /\ probe = NoProbe /\ NoTools

NextGit ==
    \/ \E d \in Daemons : ReapGit(d)
    \/ \E d \in Daemons : Fetch(d)
    \/ \E d \in Daemons : Dispatch(d)
    \/ \E d \in Daemons : Sleep(d)
    \/ \E d \in Daemons, t \in Tasks : ChildExit(d, t)

SpecGit == InitGit /\ [][NextGit]_vars

\* Remote URLs normalised, and the normalised value normalised again.
InitUrl == InitWith({}, {}, {}) /\ probe \in UrlInputs /\ NoTools

NextUrl == GetGitRemote \/ NormalizeAgain

SpecUrl == InitUrl /\ [][NextUrl]_vars

\* ------------------------------------------------------------- machine_id
\* MACHINE_ID_FILE holds None while it does not exist, else the id written to
\* it.  An id is "{hostname}-{suffix}"; the hostname is one value in a run, so
\* an id is known by its suffix.
Suffixes == 1..NumSuffixes

\* get_machine_id: the stored id if the file exists and can be read, else a
\* new id with the suffix uuid4 draws, written to the file if that succeeds.
get_machine_id(file, read_ok, suffix, write_ok) ==
    IF file # None /\ read_ok
    THEN [result |-> file, file |-> file]
    ELSE [result |-> suffix, file |-> IF write_ok THEN suffix ELSE file]

reset_machine_id(file, unlink_ok) == IF file # None /\ unlink_ok THEN None ELSE file

\* The file, the id the first call since the last reset returned, the id the
\* latest call returned, and the number of calls.
NoIdCall == [file |-> None, first |-> None, result |-> None, calls |-> 0]

\* A call of get_machine_id, from the daemon (a claim, a worktree suffix, the
\* status file) or from a tool; each call goes to the file again.
GetMachineId ==
    /\ probe.calls < MaxIdCalls
    /\ \E read_ok \in BOOLEAN, write_ok \in BOOLEAN, suffix \in Suffixes :
         \E r \in {get_machine_id(probe.file, read_ok, suffix, write_ok)} :
            probe' = [file |-> r.file,
                      first |-> IF probe.first = None THEN r.result ELSE probe.first,
                      result |-> r.result,
                      calls |-> probe.calls + 1]
    /\ UNCHANGED <<DaemonVars, reg, host, disk>>

ResetMachineId ==
    /\ probe.first # None
    /\ \E unlink_ok \in BOOLEAN :
         probe' = [probe EXCEPT !.file = reset_machine_id(probe.file, unlink_ok),
                                !.first = None, !.result = None]
    /\ UNCHANGED <<DaemonVars, reg, host, disk>>

\* The machine id read again and again, by one process or by several.
InitId == InitWith({}, {}, {}) /\ probe = NoIdCall /\ NoTools

NextId == GetMachineId \/ ResetMachineId

SpecId == InitId /\ [][NextId]_vars

\* One daemon whose loop body can raise at every step and whose status write
\* can fail, under signals.
InitLoop ==
    InitWith({1}, {t \in Tasks : t <= QueuedAtStart}, Tasks) /\ probe = NoProbe /\ NoTools

NextLoop ==
    \/ \E d \in Daemons : Reap(d)
    \/ \E d \in Daemons : Fetch(d)
    \/ \E d \in Daemons : DispatchCap(d)
    \/ \E d \in Daemons : Sleep(d)
    \/ \E d \in Daemons : SleepWriteFailed(d)
    \/ \E d \in Daemons : Raise(d)
    \/ \E d \in Daemons : SleepAfterError(d)
    \/ \E d \in Daemons, t \in Tasks : ChildExit(d, t)
    \/ \E d \in Daemons : Signal(d)

SpecLoop == InitLoop /\ [][NextLoop]_vars

\* time.sleep returns.
LoopFairness == \A d \in Daemons : WF_vars(SleepAfterError(d))

FairLoop == SpecLoop /\ LoopFairness

\* One daemon whose children may never exit.  A sleep either stays within the
\* second or takes the clock past the hard timeout.
SleepLong(d) == SleepWith(d, {0, TASK_TIMEOUT_SECONDS + 1})

TimePasses(d) == SleepWith(d, {TASK_TIMEOUT_SECONDS + 1})

InitTimeout ==
    InitWith({1}, {t \in Tasks : t <= QueuedAtStart}, Tasks) /\ probe = NoProbe /\ NoTools

NextTimeout ==
    \/ \E d \in Daemons : Reap(d)
    \/ \E d \in Daemons : Fetch(d)
    \/ \E d \in Daemons : DispatchCap(d)
    \/ \E d \in Daemons : SleepLong(d)
    \/ \E d \in Daemons, t \in Tasks : ChildExit(d, t)

SpecTimeout == InitTimeout /\ [][NextTimeout]_vars

\* The loop keeps iterating (each step of the sequential loop is taken) and
\* time advances (a loop that sleeps again and again does not stay within one
\* second for ever), for the one daemon that runs.  Nothing makes a child
\* exit.
TimeoutFairness ==
    /\ WF_vars(\E d \in Daemons : Reap(d))
    /\ WF_vars(\E d \in Daemons : Fetch(d))
    /\ WF_vars(\E d \in Daemons : DispatchCap(d))
    /\ WF_vars(\E d \in Daemons : SleepLong(d))
    /\ SF_vars(\E d \in Daemons : TimePasses(d))

FairTimeout == SpecTimeout /\ TimeoutFairness

\* The daemon processes of one machine under the foreground tools, each
\* running daemon writing the status file, and a monitor reading it.
InitFile == InitWith({}, {}, {}) /\ probe = NoHealthCall /\ NoTools

NextFile ==
    \/ ToolEnsure
    \/ ToolStop
    \/ \E p \in Pids : DaemonMain(p)
    \/ \E p \in Pids : CleanupFiles(p)
    \/ \E p \in Pids : WriteStatusStep(p)
    \/ ReadOpen
    \/ ReadChunk

SpecFile == InitFile /\ [][NextFile]_vars

\* Any sequence of calls on one ProjectRegistry that starts empty.
InitReg == InitWith({}, {}, {}) /\ probe = NoRegCall /\ NoTools

NextReg ==
    \/ \E r \in Remotes, p \in Paths : RegRegister(r, p)
    \/ \E r \in Remotes : RegResolve(r)
    \/ \E r \in Remotes : RegPeek(r)
    \/ \E r \in Remotes : RegUnregister(r)
    \/ \E r \in Remotes : RegSetDefault(r)
    \/ RegValidate

SpecReg == InitReg /\ [][NextReg]_vars

\* One daemon supervising children that print, go silent and hang.
InitMon == InitWith({1}, {t \in Tasks : t <= MonTasks}, Tasks) /\ probe = NoProbe /\ NoTools

NextMon ==
    \/ \E d \in Daemons : ReapMon(d)
    \/ \E d \in Daemons : Fetch(d)
    \/ \E d \in Daemons : DispatchMon(d)
    \/ \E d \in Daemons : SleepMon(d)

SpecMon == InitMon /\ [][NextMon]_vars

\* The pure functions on every input: any answer of the server, either mode,
\* any score in hundredths or no analysis.
ProbeInputs ==
    {[NoProbe EXCEPT !.result = r, !.global = g, !.analysis = a] :
        r \in Responses, g \in BOOLEAN,
        a \in {NoAnalysis} \cup {Analysis(sc) : sc \in 0..MaxScore}}

Apply ==
    /\ ~probe.applied
    /\ probe' = [probe EXCEPT !.claimed = claim_task(probe.global, probe.result),
                              !.mode = get_execution_mode(probe.analysis),
                              !.applied = TRUE]
    /\ UNCHANGED <<exec_status, claimed_by, sent_terminal, now, pc, fetched, running_tasks,
                   task_details, completed_today, child, last_call, last_reap, lost_claims,
                   registry_file, registry, task_last_output, pid_file, status_file, host, reg,
                   task_project_paths, git, disk>>

InitFn == InitWith({}, {}, {}) /\ probe \in ProbeInputs /\ NoTools

NextFn == Apply

SpecFn == InitFn /\ [][NextFn]_vars

\* api_request on every credential, retry flag and run of urlopen outcomes.
ApiInputs ==
    {[api_key |-> a, retry |-> r, outcomes |-> o, calls |-> <<>>, applied |-> FALSE] :
        a \in BOOLEAN, r \in BOOLEAN, o \in [1..RETRY_MAX_ATTEMPTS -> {Ok} \cup Errors]}

Request ==
    /\ ~probe.applied
    /\ probe' = [probe EXCEPT !.calls = api_request(probe.api_key, probe.retry, probe.outcomes),
                              !.applied = TRUE]
    /\ UNCHANGED <<exec_status, claimed_by, sent_terminal, now, pc, fetched, running_tasks,
                   task_details, completed_today, child, last_call, last_reap, lost_claims,
                   registry_file, registry, task_last_output, pid_file, status_file, host, reg,
                   task_project_paths, git, disk>>

InitApi == InitWith({}, {}, {}) /\ probe \in ApiInputs /\ NoTools

NextApi == Request

SpecApi == InitApi /\ [][NextApi]_vars

\* ------------------------------------------------------------- properties
SideEffect(e) == e.ev \in {"create_worktree", "Popen", "running_tasks_add"}

Executing(d, t) == child[d][t] # "none"

\* C1: with every daemon polling the same queue and the server applying the
\* conditional update, at most one daemon creates a worktree and spawns a
\* child for a task, and a daemon spawns a child only for a task whose server
\* status was queued when its claim was made.
C1_OneExecutor == \A t \in Tasks : Cardinality({d \in Daemons : Executing(d, t)}) <= 1

C1_ClaimedFromQueued ==
    \A d \in Daemons, t \in Tasks :
        ~Executing(d, t) /\ Executing(d, t)' => exec_status[t] = "queued"

C1_AtomicClaim == []C1_OneExecutor /\ [][C1_ClaimedFromQueued]_vars

\* One daemon runs the task and another has just lost the claim of it.
C1_Witness ==
    \E d1 \in Daemons, d2 \in Daemons, t \in Tasks :
        /\ d1 # d2
        /\ child[d1][t] = "alive"
        /\ claimed_by[t] = d1
        /\ last_call[d2] = [task |-> t, events |-> <<Ev("claim_task", t, "false", "", 0)>>]

\* C2: in every execute_task call, a worktree creation or a spawn comes after
\* a claim_task of the same call that returned true.
C2_ClaimBeforeSideEffects ==
    \A d \in Daemons :
        LET tr == last_call[d].events IN
        \A i \in 1..Len(tr) :
            tr[i].ev \in {"create_worktree", "Popen"} =>
                \E j \in 1..(i - 1) : tr[j] = Ev("claim_task", tr[i].task, "true", "", 0)

\* A call that claimed the task, created the worktree and spawned the child.
C2_Witness ==
    \E d \in Daemons :
        LET tr == last_call[d].events IN
        /\ Len(tr) >= 1
        /\ tr[1].ev = "claim_task"
        /\ \E i \in 1..Len(tr) : tr[i].ev = "Popen" /\ tr[i].status = "ok"
        /\ child[d][last_call[d].task] = "alive"

\* C3: the running table never holds more than MAX_CONCURRENT_TASKS entries.
C3_RunningTableBounded == \A d \in Daemons : Len(running_tasks[d]) <= MAX_CONCURRENT_TASKS

\* The table is full and the call just made was refused for it.
C3_Witness ==
    \E d \in Daemons :
        /\ Len(running_tasks[d]) = MAX_CONCURRENT_TASKS
        /\ last_call[d].events = <<Ev("skip", last_call[d].task, "max_concurrent", "", 0)>>

\* C4: a task is in the running table exactly when a child was spawned for it
\* whose exit the daemon has not yet observed (it runs, or it has exited and
\* no reap pass has seen that yet).
Unobserved(d, t) == child[d][t] \in {"alive", "exited0", "exitedN"}

C4_TableIffChild ==
    \A d \in Daemons, t \in Tasks : InSeq(running_tasks[d], t) <=> Unobserved(d, t)

\* A reap pass has just removed a task whose child it had to kill.
C4_Witness ==
    \E d \in Daemons, t \in Tasks :
        /\ child[d][t] = "killed"
        /\ ~InSeq(running_tasks[d], t)
        /\ HasEv(last_reap[d], "del_running_tasks", t)

\* The calls of trace tr on task t that are named e.
Calls(tr, e, t) == {i \in 1..Len(tr) : tr[i].ev = e /\ tr[i].task = t}

\* C5 (as the code has it): for a task the reap pass removes, the daemon
\* records one completed_today entry; when the child exited non-zero or hit
\* the timeout it sends one status update, with status failed; when the child
\* exited with code 0 it sends no status update at all.
C5_DaemonReports ==
    \A d \in Daemons, t \in Tasks :
        LET tr == last_reap[d]
            ups == Calls(tr, "update_task_status", t)
            ents == Calls(tr, "completed_today", t)
        IN HasEv(tr, "del_running_tasks", t) =>
              /\ Cardinality(ents) = 1
              /\ \A i \in ents :
                    /\ tr[i].status = "completed" => ups = {}
                    /\ tr[i].status \in {"failed", "timeout"} =>
                          /\ Cardinality(ups) = 1
                          /\ \A j \in ups : tr[j].status = "failed"

\* A task reaped after a clean exit for which nothing ever reported a result.
C5_Witness ==
    \E d \in Daemons, t \in Tasks :
        /\ HasEv(last_reap[d], "del_running_tasks", t)
        /\ \E i \in Calls(last_reap[d], "completed_today", t) :
              last_reap[d][i].status = "completed"
        /\ sent_terminal[t] = 0
        /\ exec_status[t] = "running"

\* C5 (as stated): every task the reap pass removes has had exactly one
\* terminal status report sent for it.
C5_OneTerminalReport ==
    \A d \in Daemons, t \in Tasks :
        HasEv(last_reap[d], "del_running_tasks", t) => sent_terminal[t] = 1

\* C6: an execute_task call that finds the mode clarify and reports
\* needs_clarification creates no worktree, spawns no child and adds no
\* running-table entry.
C6_ClarifyNoSpawn ==
    \A d \in Daemons :
        LET tr == last_call[d].events
            t == last_call[d].task
        IN (\/ HasEv(tr, "get_execution_mode", t)
               /\ \A i \in Calls(tr, "get_execution_mode", t) : tr[i].status = "clarify"
            \/ \E i \in Calls(tr, "update_task_status", t) :
                  tr[i].status = "needs_clarification")
           => /\ \A i \in 1..Len(tr) : ~SideEffect(tr[i])
              /\ ~InSeq(running_tasks[d], t)
              /\ child[d][t] = "none"

\* A call that asked for clarification, as the server now records.
C6_Witness ==
    \E d \in Daemons :
        LET tr == last_call[d].events
            t == last_call[d].task
        IN /\ t \in Tasks
           /\ \E i \in Calls(tr, "get_execution_mode", t) : tr[i].status = "clarify"
           /\ \E i \in Calls(tr, "update_task_status", t) : tr[i].status = "needs_clarification"
           /\ exec_status[t] = "needs_clarification"

\* C7: a task whose claim was answered {success: true, claimed: false} gets no
\* worktree, no child and no running-table entry, and in the iteration after
\* it the daemon makes no claim for it and does not execute it.
C7_LostClaimSkipped ==
    \A d \in Daemons, t \in Tasks :
        LET tr == last_call[d].events IN
        /\ t \in lost_claims[d].cur =>
              /\ ~InSeq(running_tasks[d], t)
              /\ child[d][t] = "none"
              /\ last_call[d].task = t => \A i \in 1..Len(tr) : ~SideEffect(tr[i])
        /\ t \in lost_claims[d].prev /\ last_call[d].task = t =>
              /\ ~HasEv(tr, "claim_task", t)
              /\ \A i \in 1..Len(tr) : ~SideEffect(tr[i])

\* In the iteration after a lost claim the daemon dispatches another task.
C7_Witness ==
    \E d \in Daemons, t \in Tasks :
        /\ t \in lost_claims[d].prev
        /\ child[d][t] = "none"
        /\ last_call[d].task \in Tasks \ {t}

\* C8: in routed mode claim_task answers true for a response with claimed
\* true, false for one with claimed false, true for one with no claimed key
\* and success true, and false when there is no response or when neither
\* claimed nor success is set.
Unset(v) == v \in {"absent", "null"}

C8_ClaimMapping ==
    probe.applied /\ probe.global =>
        LET r == probe.result IN
        /\ r.present /\ r.claimed = "true" => probe.claimed
        /\ r.present /\ r.claimed = "false" => ~probe.claimed
        /\ r.present /\ r.claimed = "absent" /\ r.success = "true" => probe.claimed
        /\ ~r.present => ~probe.claimed
        /\ r.present /\ Unset(r.claimed) /\ Unset(r.success) => ~probe.claimed

\* The backward-compatibility answer {success: true} was taken as a claim.
C8_Witness ==
    /\ probe.applied
    /\ probe.global
    /\ probe.result = Resp("true", "absent")
    /\ probe.claimed

\* C9: the mode is immediate for a score of at least 0.7, planning for a
\* score of at least 0.4 and below 0.7, clarify for a score below 0.4, and
\* immediate when there is no analysis.
C9_ModeThresholds ==
    probe.applied =>
        LET a == probe.analysis IN
        /\ ~a.available => probe.mode = "immediate"
        /\ a.available /\ a.score >= 70 => probe.mode = "immediate"
        /\ a.available /\ a.score >= 40 /\ a.score < 70 => probe.mode = "planning"
        /\ a.available /\ a.score < 40 => probe.mode = "clarify"

\* A score of exactly 0.4 gave planning.
C9_Witness ==
    /\ probe.applied
    /\ probe.analysis = Analysis(40)
    /\ probe.mode = "planning"

\* C10: a reap pass that finds a running task with now - started_at above
\* 3600 s terminates its child (and kills it only after the terminate),
\* sends one status update for it, failed with a "timed out" error, removes
\* it from the running table, and appends one completed_today entry for it,
\* with status timeout and a duration of at least 3600 s.
IsReap(d) == pc[d] = "reap" /\ pc'[d] = "fetch"

C10_TimeoutStep ==
    \A d \in Daemons, t \in Tasks :
        (/\ IsReap(d)
         /\ InSeq(running_tasks[d], t)
         /\ task_details[d][t].present
         /\ now - task_details[d][t].started_at > 3600)
        => LET tr == last_reap'[d]
               ups == Calls(tr, "update_task_status", t)
               added == SubSeq(completed_today'[d], Len(completed_today[d]) + 1,
                               Len(completed_today'[d]))
               mine == {i \in 1..Len(added) : added[i].display_number = t}
           IN /\ Cardinality(Calls(tr, "terminate", t)) = 1
              /\ \A k \in Calls(tr, "kill", t) : \E i \in Calls(tr, "terminate", t) : i < k
              /\ child[d][t] = "alive" => child'[d][t] \in {"terminated", "killed"}
              /\ Cardinality(ups) = 1
              /\ \A i \in ups : tr[i].status = "failed" /\ tr[i].error = "timed out"
              /\ ~InSeq(running_tasks'[d], t)
              /\ Cardinality(mine) = 1
              /\ \A i \in mine : added[i].status = "timeout" /\ added[i].duration_seconds >= 3600

C10_HardTimeout == [][C10_TimeoutStep]_vars

\* A reap pass has terminated and killed a child that ran for 3601 s and
\* recorded the timeout.
C10_Witness ==
    \E d \in Daemons, t \in Tasks :
        /\ HasEv(last_reap[d], "terminate", t)
        /\ HasEv(last_reap[d], "kill", t)
        /\ child[d][t] = "killed"
        /\ exec_status[t] = "failed"
        /\ \E i \in 1..Len(completed_today[d]) :
              completed_today[d][i] = [display_number |-> t, status |-> "timeout",
                                       duration_seconds |-> 3601]

\* The reap pass of daemon d treats the exit of t's child as the exit code says.
ExitHandled(d, t) ==
    LET tr == last_reap'[d]
        ups == Calls(tr, "update_task_status", t)
        ents == Calls(tr, "completed_today", t)
    IN /\ child[d][t] = "exited0" =>
             /\ Cardinality(ents) = 1
             /\ \A i \in ents : tr[i].status = "completed"
             /\ \A i \in ups : tr[i].status # "failed"
       /\ child[d][t] = "exitedN" =>
             /\ Cardinality(ents) = 1
             /\ \A i \in ents : tr[i].status = "failed"
             /\ Cardinality(ups) = 1
             /\ \A i \in ups : tr[i].status = "failed" /\ tr[i].error = "Exit code"

\* C11 (as the code has it): a reap pass that finds a running task not past
\* the hard timeout (now - started_at <= 3600 s) whose child has exited
\* records it as completed, with no failed update, after exit code 0, and
\* sends one failed update carrying the exit code and records it as failed
\* after a non-zero exit code.
C11_ExitStep ==
    \A d \in Daemons, t \in Tasks :
        (/\ IsReap(d)
         /\ InSeq(running_tasks[d], t)
         /\ ~(task_details[d][t].present /\ now - task_details[d][t].started_at > 3600))
        => ExitHandled(d, t)

C11_ExitCodes == [][C11_ExitStep]_vars

\* A pass has found a non-zero exit and reported the task failed.
C11_Witness ==
    \E d \in Daemons, t \in Tasks :
        /\ \E i \in Calls(last_reap[d], "update_task_status", t) :
              last_reap[d][i].error = "Exit code"
        /\ \E i \in Calls(last_reap[d], "completed_today", t) :
              last_reap[d][i].status = "failed"
        /\ child[d][t] = "reaped"
        /\ exec_status[t] = "failed"

\* C11 (as stated): every reap pass that finds a running task whose child has
\* exited treats it as the exit code says.
C11_AsStatedStep ==
    \A d \in Daemons, t \in Tasks :
        IsReap(d) /\ InSeq(running_tasks[d], t) => ExitHandled(d, t)

C11_AsStated == [][C11_AsStatedStep]_vars

\* The needs-input notifications of trace tr for task t.
NeedsInput(tr, t) == {i \in Calls(tr, "send_notification", t) : tr[i].status = "needs_input"}

\* C12 (as stated): of the lines a running task prints over its lifetime the
\* first with a stuck pattern sets the phase to stuck and one needs-input
\* notification is sent; a pass sends at most one, and none for a task whose
\* phase is stuck already.
C12_StuckStep ==
    \A d \in Daemons, t \in Tasks :
        IsReap(d) /\ InSeq(running_tasks[d], t) =>
            LET tr == last_reap'[d]
                stuck == {i \in Calls(tr, "update_task_detail", t) : tr[i].status = "stuck"}
            IN /\ Cardinality(NeedsInput(tr, t)) <= 1
               /\ task_details[d][t].phase = "stuck" => NeedsInput(tr, t) = {}
               /\ stuck # {} => NeedsInput(tr, t) # {}

C12_OneNotification == [][C12_StuckStep]_vars

Signalled(state) == state \in {"terminated", "killed"}

\* C13: a daemon signals a child (terminate, kill) only in a reap pass that
\* finds now - started_at above 3600 s for its task; a pass that finds a live
\* child below that, stuck or idle or neither, leaves the child alive and the
\* task in the running table.
C13_SignalStep ==
    \A d \in Daemons, t \in Tasks :
        LET past == task_details[d][t].present /\ now - task_details[d][t].started_at > 3600
            tr == last_reap'[d]
        IN /\ ~Signalled(child[d][t]) /\ Signalled(child'[d][t]) =>
                 IsReap(d) /\ InSeq(running_tasks[d], t) /\ past
           /\ IsReap(d) /\ (HasEv(tr, "terminate", t) \/ HasEv(tr, "kill", t)) => past
           /\ IsReap(d) /\ InSeq(running_tasks[d], t) /\ child[d][t] = "alive" /\ ~past =>
                 child'[d][t] = "alive" /\ InSeq(running_tasks'[d], t)

C13_OnlyTimeoutKills == [][C13_SignalStep]_vars

\* A pass has just found a task idle and left its child running.
C13_Witness ==
    \E d \in Daemons, t \in Tasks :
        /\ \E i \in Calls(last_reap[d], "update_task_detail", t) : last_reap[d][i].status = "idle"
        /\ task_details[d][t].phase = "idle"
        /\ child[d][t] = "alive"
        /\ InSeq(running_tasks[d], t)

\* The failures the retry policy names: a network failure, a reset or refused
\* connection, a timeout, HTTP 429 and HTTP 5xx.
Transient(e) ==
    \/ e.kind = "URLError"
    \/ e.text = "pattern"
    \/ e.kind = "HTTPError" /\ (e.code = 429 \/ (500 <= e.code /\ e.code < 600))

Attempts(tr) == {i \in 1..Len(tr) : tr[i].ev = "urlopen"}

Sleeps(tr) == {i \in 1..Len(tr) : tr[i].ev = "sleep"}

\* C14 (as stated): api_request sleeps and tries again only after a transient
\* failure; after any other failure, HTTP 401, 404 or another 4xx among them,
\* it has made one attempt, has not slept and returns failure.
C14_OnlyTransientRetried ==
    probe.applied /\ probe.api_key =>
        LET tr == probe.calls
        IN /\ \A i \in Sleeps(tr) : Transient(probe.outcomes[tr[i - 1].num])
           /\ ~Transient(probe.outcomes[1]) /\ probe.outcomes[1] # Ok =>
                 /\ Cardinality(Attempts(tr)) = 1
                 /\ Sleeps(tr) = {}
                 /\ tr[Len(tr)].status = "None"

RECURSIVE Pow(_, _)
Pow(b, n) == IF n = 0 THEN 1 ELSE b * Pow(b, n - 1)

\* C15: a call of api_request ends with one return after at most 3 attempts:
\* none without a credential, one when retry is off.  Attempt k gets the k-th
\* outcome; the sleep after attempt k lasts min(2 * 2^(k-1), 30) s, so 2 s then
\* 4 s; the call returns the response of the first attempt that succeeds and
\* failure when the last attempt it makes fails.
C15_BoundedBackoff ==
    probe.applied =>
        LET tr == probe.calls
            n == Cardinality(Attempts(tr))
        IN /\ Len(tr) > 0
           /\ \A i \in 1..Len(tr) : tr[i].ev = "return" <=> i = Len(tr)
           /\ n <= 3
           /\ ~probe.api_key => n = 0 /\ tr[Len(tr)].status = "None"
           /\ probe.api_key /\ ~probe.retry => n = 1
           /\ probe.api_key => n >= 1 /\ Cardinality(Sleeps(tr)) = n - 1
           /\ \A i \in Attempts(tr) :
                 /\ tr[i].num = Cardinality({j \in Attempts(tr) : j <= i})
                 /\ tr[i].status = probe.outcomes[tr[i].num].kind
                 /\ tr[i].status = "ok" => tr[i + 1] = Ev("return", 0, "response", "", tr[i].num)
                 /\ tr[i].status # "ok" => tr[i + 1].ev = "sleep" \/ tr[i + 1].status = "None"
           /\ \A i \in Sleeps(tr) :
                 /\ tr[i - 1].ev = "urlopen" /\ tr[i + 1].ev = "urlopen"
                 /\ tr[i].num = Min(2 * Pow(2, tr[i - 1].num - 1), 30)
                 /\ tr[i].num = IF tr[i - 1].num = 1 THEN 2 ELSE 4

\* Two failures, sleeps of 2 s and 4 s, and a third attempt that succeeds.
C15_Witness ==
    /\ probe.applied
    /\ Cardinality(Attempts(probe.calls)) = 3
    /\ {probe.calls[i].num : i \in Sleeps(probe.calls)} = {2, 4}
    /\ probe.calls[Len(probe.calls)].status = "response"

\* A step in which daemon d calls execute_task for the head of its fetched list.
IsDispatch(d) == pc[d] = "dispatch" /\ fetched[d] # <<>> /\ fetched'[d] = Tail(fetched[d])

IsFetch(d) == pc[d] = "fetch" /\ pc'[d] # "fetch"

EarlySkips == {"no_display_number", "already_running", "max_concurrent"}

\* C16: an execute_task call that skips for a missing display number, for a
\* task already in the running table or for a full table makes no other call
\* (no claim, no status update, no worktree, no child) and leaves the server
\* status and every in-memory table as they were; the skip is taken exactly
\* when its condition holds, and a fetch that is answered hands every queued
\* task outside the backlog to the dispatcher again.
C16_SkipStep ==
    \A d \in Daemons :
        /\ IsDispatch(d) =>
              LET t == Head(fetched[d])
                  tr == last_call'[d].events
                  skipped == tr[1].ev = "skip" /\ tr[1].status \in EarlySkips
              IN /\ Len(tr) >= 1
                 /\ (last_call'[d].task # 0 /\ InSeq(running_tasks[d], t))
                       => tr[1] = Ev("skip", t, "already_running", "", 0)
                 /\ (last_call'[d].task # 0 /\ ~InSeq(running_tasks[d], t)
                        /\ Len(running_tasks[d]) >= MAX_CONCURRENT_TASKS)
                       => tr[1] = Ev("skip", t, "max_concurrent", "", 0)
                 /\ last_call'[d].task = 0 => tr[1] = Ev("skip", 0, "no_display_number", "", 0)
                 /\ skipped =>
                       /\ Len(tr) = 1
                       /\ exec_status' = exec_status
                       /\ claimed_by' = claimed_by
                       /\ sent_terminal' = sent_terminal
                       /\ child' = child
                       /\ running_tasks' = running_tasks
                       /\ task_details' = task_details
                       /\ completed_today' = completed_today
                       /\ task_last_output' = task_last_output
        /\ IsFetch(d) /\ fetched'[d] # <<>> =>
              \A t \in Tasks \ BacklogTasks :
                  exec_status[t] = "queued" => InSeq(fetched'[d], t)

C16_SkipsChangeNothing == [][C16_SkipStep]_vars

\* The table is full and the call just made for a queued task was a skip for
\* capacity.
C16_Witness ==
    \E d \in Daemons :
        /\ Len(running_tasks[d]) = MAX_CONCURRENT_TASKS
        /\ last_call[d].task # 0
        /\ last_call[d].events = <<Ev("skip", last_call[d].task, "max_concurrent", "", 0)>>
        /\ exec_status[last_call[d].task] = "queued"
        /\ ~InSeq(running_tasks[d], last_call[d].task)
        /\ ~task_details[d][last_call[d].task].present

RoutingSkips == {"no_git_remote", "not_registered"}

\* C17: in routed mode an execute_task call for a task whose remote is absent
\* or not in the daemon's registry is a skip and nothing else: no claim, no
\* status update, no worktree, no child; the server status of the task, queued
\* when it was fetched, is what it was, and so are the daemon's tables.
C17_RoutingStep ==
    \A d \in Daemons :
        IsDispatch(d) /\ GLOBAL_MODE_ENABLED =>
            LET t == Head(fetched[d])
                tr == last_call'[d].events
            IN /\ (/\ last_call'[d].task # 0
                    /\ ~InSeq(running_tasks[d], t)
                    /\ Len(running_tasks[d]) < MAX_CONCURRENT_TASKS
                    /\ ~get_project_path_for_task(d, t))
                     => tr[1].ev = "skip" /\ tr[1].status \in RoutingSkips
               /\ tr[1].ev = "skip" /\ tr[1].status \in RoutingSkips =>
                     /\ Len(tr) = 1
                     /\ ~HasEv(tr, "claim_task", t)
                     /\ ~HasEv(tr, "update_task_status", t)
                     /\ exec_status' = exec_status
                     /\ claimed_by' = claimed_by
                     /\ sent_terminal' = sent_terminal
                     /\ child' = child
                     /\ running_tasks' = running_tasks
                     /\ task_details' = task_details

C17_UnroutableSkipped == [][C17_RoutingStep]_vars

\* The call just made skipped a task whose project is not registered; the
\* task is still queued and has no child.
C17_Witness ==
    \E d \in Daemons, t \in Tasks :
        /\ last_call[d] = [task |-> t, events |-> <<Ev("skip", t, "not_registered", "", 0)>>]
        /\ t \notin registry[d]
        /\ exec_status[t] = "queued"
        /\ child[d][t] = "none"
        /\ sent_terminal[t] = 0

\* C18 (as stated): once the project of a task is in the registry file, a
\* running daemon that is handed the task, still queued, with a slot free,
\* goes on to claim it and does not skip it as unregistered, also when the
\* project was registered after the daemon started.
C18_RegisteredStep ==
    \A d \in Daemons :
        IsDispatch(d) =>
            LET t == Head(fetched[d])
                tr == last_call'[d].events
            IN (/\ last_call'[d].task # 0
                /\ t \in registry_file
                /\ exec_status[t] = "queued"
                /\ ~InSeq(running_tasks[d], t)
                /\ Len(running_tasks[d]) < MAX_CONCURRENT_TASKS)
                 => tr[1].ev = "claim_task"

C18_LaterRegistrationSeen == [][C18_RegisteredStep]_vars

\* The bookkeeping of an execute_task call whose worktree creation failed,
\* apart from task_details: one failed report, no child, no running entry.
WorktreeFailureReported(d, t) ==
    LET tr == last_call[d].events IN
    /\ Cardinality(Calls(tr, "update_task_status", t)) = 1
    /\ \A i \in Calls(tr, "update_task_status", t) : tr[i].status = "failed"
    /\ ~HasEv(tr, "Popen", t)
    /\ child[d][t] = "none"
    /\ ~InSeq(running_tasks[d], t)
    /\ task_last_output[d][t] = -1

\* C19 (as stated): after an execute_task call whose worktree creation failed
\* the daemon has sent one failed report for the task, has spawned no child
\* and holds the task in none of its tables: running_tasks, task_details,
\* task_last_output.
C19_WorktreeFailureForgotten ==
    \A d \in Daemons, t \in Tasks :
        last_call[d].task = t /\ HasEv(last_call[d].events, "create_worktree", t)
          /\ ~HasEv(last_call[d].events, "running_tasks_add", t)
          /\ (\E i \in Calls(last_call[d].events, "create_worktree", t) :
                 last_call[d].events[i].status = "failed")
        => WorktreeFailureReported(d, t) /\ ~task_details[d][t].present

\* C20 (as stated): for a todo marked isBacklog no daemon sends a claim,
\* creates a worktree or spawns a child, also when the fetch response holds it.
C20_BacklogNeverDispatched ==
    \A d \in Daemons, t \in BacklogTasks :
        /\ ~HasEv(last_call[d].events, "claim_task", t)
        /\ ~HasEv(last_call[d].events, "create_worktree", t)
        /\ ~HasEv(last_call[d].events, "Popen", t)
        /\ child[d][t] = "none"

\* C21 (as stated): a daemon that has exited on a signal has left no child it
\* spawned running, has removed the pid file and the status file, and has
\* exited with code 0.
C21_CleanShutdown ==
    \A d \in Daemons :
        pc[d] = "exited" =>
            /\ \A t \in Tasks : child[d][t] # "alive"
            /\ ~pid_file[d]
            /\ ~status_file[d].written
            /\ last_call[d].events[Len(last_call[d].events)] = Ev("sys.exit", 0, "", "", 0)

\* A step that is one ensure_daemon_running call.
IsEnsure ==
    /\ FreePids(host) # {}
    /\ \E popen_ok \in BOOLEAN :
        LET r == ensure_daemon_running(host, popen_ok)
        IN /\ host' = r.host
           /\ probe' = [calls |-> r.calls, result |-> r.result, before |-> host, applied |-> TRUE]

\* The pid file names a live daemon that wrote the version file.
DaemonRecorded(h) ==
    /\ is_daemon_running(h)
    /\ h.procs[h.pid_file] = "running"
    /\ h.loaded[h.pid_file] = h.version_file

\* C22: an ensure_daemon_running call made while the pid file names a live
\* daemon whose version file equals the installed version sends signal 0 to
\* that pid and nothing else, starts no process, leaves the pid file, the
\* version file and the processes as they were and returns true; the state
\* after the call is the state before it, so any number of calls is as one.
C22_Step ==
    IsEnsure /\ DaemonRecorded(host) /\ host.version_file = host.installed =>
        /\ host' = host
        /\ probe'.result
        /\ probe'.calls = <<Ev("os.kill", host.pid_file, "0", "", 0),
                            Ev("return", 0, "True", "", 0)>>

C22_NoOpWhenCurrent == [][C22_Step]_vars

\* A call just made found the daemon current and running and changed nothing.
C22_Witness ==
    /\ probe.applied
    /\ DaemonRecorded(probe.before)
    /\ probe.before.version_file = probe.before.installed
    /\ probe.result
    /\ host = probe.before

Started(h1, h2) == \E p \in Pids : h1.procs[p] = "none" /\ h2.procs[p] = "starting"

\* C23 (as stated): a call made while the recorded daemon's version differs
\* from the installed one signals that daemon to stop and starts a new one; a
\* call made while no daemon is running starts one; with the daemon script
\* missing a call starts nothing and returns.
C23_Step ==
    IsEnsure =>
        LET attempted == \/ Started(host, host')
                         \/ \E i \in 1..Len(probe'.calls) : probe'.calls[i].ev = "Popen"
        IN /\ (DaemonRecorded(host) /\ host.version_file # host.installed /\ host.script) =>
                 /\ \E i \in 1..Len(probe'.calls) :
                        probe'.calls[i] = Ev("os.kill", host.pid_file, "SIGTERM", "", 0)
                 /\ attempted
           /\ (~is_daemon_running(host) /\ host.script) => attempted
           /\ (~is_daemon_running(host) /\ ~host.script) =>
                 ~Started(host, host') /\ probe'.calls[Len(probe'.calls)].ev = "return"

C23_RestartWhenOutdated == [][C23_Step]_vars

\* The registries of two states agree on everything but last_used of remote r:
\* the same entries in the same order, the same paths and registration times,
\* the same default.
SameButLastUsed(d1, d2, r) ==
    /\ Len(d1.projects) = Len(d2.projects)
    /\ d1.default_project = d2.default_project
    /\ \A i \in 1..Len(d1.projects) :
           /\ d1.projects[i].git_remote = d2.projects[i].git_remote
           /\ d1.projects[i].local_path = d2.projects[i].local_path
           /\ d1.projects[i].registered_at = d2.projects[i].registered_at
           /\ d1.projects[i].git_remote # r =>
                  d1.projects[i].last_used = d2.projects[i].last_used

\* C24: starting from an empty registry, after any sequence of register,
\* unregister, set_default_project, resolve and peek calls the default project
\* is None exactly when the registry has no entries and is otherwise the key of
\* an existing entry; unregistering the default entry makes a remaining entry
\* the default.
C24_DefaultConsistent ==
    /\ reg.data.default_project = None <=> reg.data.projects = <<>>
    /\ reg.data.default_project # None => reg.data.default_project \in Keys(reg.data)
    /\ (/\ probe.op = "unregister"
        /\ probe.before.data.default_project = probe.git_remote
        /\ reg.data.projects # <<>>)
       => /\ reg.data.default_project \in Keys(reg.data)
          /\ reg.data.default_project # probe.git_remote

\* The default entry of a registry with several entries has been unregistered.
C24_Witness ==
    /\ probe.op = "unregister"
    /\ probe.before.data.default_project = probe.git_remote
    /\ Len(probe.before.data.projects) = NumRemotes
    /\ reg.data.default_project \in Keys(reg.data)

\* The latest two calls were register with the same remote and path.
RegisteredTwice ==
    /\ probe.op = "register"
    /\ probe.again

\* C25: a registry on which register(r, p) was called twice in a row equals the
\* registry after the first call in everything except the last_used time of r
\* (order of entries, the other entries, local_path, registered_at and the
\* default are the same), the second call returns False, and a register call
\* returns True exactly when r was not registered before it.
C25_RegisterIdempotent ==
    /\ probe.op = "register" =>
           /\ probe.result = (probe.git_remote \notin Keys(probe.before.data))
           /\ probe.git_remote \in Keys(reg.data)
           /\ reg.data.projects[IndexOf(reg.data, probe.git_remote)].local_path
                  = probe.local_path
           /\ reg.file = <<reg.data>>
    /\ RegisteredTwice =>
           /\ SameButLastUsed(probe.before.data, reg.data, probe.git_remote)
           /\ probe.result = FALSE

\* register(r, p) was called twice in a row on a registry holding other entries,
\* r not being the last of them.
C25_Witness ==
    /\ RegisteredTwice
    /\ Len(reg.data.projects) > 1
    /\ reg.data.projects[Len(reg.data.projects)].git_remote # probe.git_remote
    /\ reg.data.projects[IndexOf(reg.data, probe.git_remote)].last_used
           # probe.before.data.projects[IndexOf(reg.data, probe.git_remote)].last_used

\* C26: get_path_without_update and validate_paths leave the registry in memory
\* and its file as they were (no entry is deleted, whatever validate_paths finds);
\* get_path_without_update returns the path get_path would return; get_path
\* changes only the last_used time of the entry it looks up.
C26_ReadsDoNotWrite ==
    /\ probe.op \in {"get_path_without_update", "validate_paths"} =>
           /\ reg.data = probe.before.data
           /\ reg.file = probe.before.file
    /\ probe.op = "get_path_without_update" =>
           probe.result = get_path(probe.before.data, probe.git_remote,
                                   probe.before.clock + 1).result
    /\ probe.op = "get_path" =>
           /\ SameButLastUsed(probe.before.data, reg.data, probe.git_remote)
           /\ probe.result = get_path_without_update(probe.before.data, probe.git_remote).result

\* validate_paths has reported every entry of a full registry as invalid.
C26_Witness ==
    /\ probe.op = "validate_paths"
    /\ Len(probe.result) = NumRemotes
    /\ Len(reg.data.projects) = NumRemotes

\* C27: remote-URL normalisation (strip one of the prefixes https://, http://,
\* git@, ssh://git@; replace the first ":" by "/" when the rest has a ":" and
\* no "://"; strip one trailing ".git") is idempotent: applied to a value it
\* has produced, it returns that value.
C27_NormalizeIdempotent == probe.stage = 2 => probe.again = probe.result.url

WorktreeRemoved(d, t) ==
    /\ git[d].made[t].path \in git[d].worktrees
    /\ git[d].made[t].path \notin git'[d].worktrees

C29_Step ==
    \A d \in Daemons :
        /\ git[d].branches \subseteq git'[d].branches
        /\ \A t \in Tasks : WorktreeRemoved(d, t) => git[d].made[t].branch \in git'[d].branches

\* C29: no daemon action deletes a branch; after the reap pass has removed the
\* worktree of a completed, failed or timed-out task, the branch created or
\* attached at dispatch still exists.
C29_BranchesKept == [][C29_Step]_vars

\* The worktree of a reaped task is gone and its branch is there.
C29_Witness ==
    \E d \in Daemons, t \in Tasks :
        /\ git[d].removed[t] # NoPath
        /\ git[d].made[t].path \notin git[d].worktrees
        /\ git[d].made[t].branch \in git[d].branches
        /\ child[d][t] = "reaped"

\* C30: in every status snapshot a daemon writes, completed_today holds at
\* most 10 entries, the most recently reaped tasks in reap order; active_tasks
\* lists the running tasks, before any queued one; stats.max_concurrent is
\* MAX_CONCURRENT_TASKS.
C30_SnapshotShape ==
    \A d \in Daemons :
        status_file[d].written =>
            LET snap == status_file[d]
                shown == snap.completed_today
                ct == completed_today[d]
            IN /\ Len(shown) <= 10
               /\ Len(shown) = IF Len(ct) < 10 THEN Len(ct) ELSE 10
               /\ \A i \in 1..Len(shown) : shown[i] = ct[Len(ct) - Len(shown) + i]
               /\ \A i, j \in 1..Len(snap.active_tasks) :
                      i < j => ~(/\ snap.active_tasks[i].status = "queued"
                                 /\ snap.active_tasks[j].status = "running")
               /\ {snap.active_tasks[i].display_number : i \in 1..Len(snap.active_tasks)}
                      = {t \in Tasks : InSeq(running_tasks[d], t)}
               /\ snap.stats.max_concurrent = MAX_CONCURRENT_TASKS
               /\ snap.stats.completed_today = Len(ct)

\* A snapshot written with more entries in the completed list than it shows,
\* while a task is running.
C30_Witness ==
    \E d \in Daemons :
        /\ status_file[d].written
        /\ Len(completed_today[d]) > Len(status_file[d].completed_today)
        /\ Len(status_file[d].completed_today) = COMPLETED_SHOWN
        /\ status_file[d].completed_today[1] # completed_today[d][1]
        /\ status_file[d].active_tasks # <<>>

\* C38: for every interleaving of ensure_daemon_running, stop_daemon and
\* start_daemon calls with the daemon's start-up and its signal-driven cleanup,
\* whenever a daemon process is alive and not shutting down the pid file holds
\* that process's pid, so that at most one daemon process is alive at a time.
C38_PidFileTracksDaemon ==
    /\ \A p \in Pids : Alive(host, p) /\ p \notin host.signalled => host.pid_file = p
    /\ Cardinality({p \in Pids : Alive(host, p) /\ p \notin host.signalled}) <= 1

\* C33: after the first call of get_machine_id every later call returns the
\* same machine id as the first call until reset_machine_id is called, also
\* in a run in which writing the id to the file failed.
C33_StableId == probe.first # None => probe.result = probe.first

\* C34: after any number of terminal transitions (completed, failed, timeout)
\* in one daemon run, the daemon's in-memory completed_today list holds at
\* most 10 entries.
C34_CompletedBounded == \A d \in Daemons : Len(completed_today[d]) <= COMPLETED_SHOWN

\* The entries of a snapshot with status running.
RunningEntries(snap) == SelectSeq(snap.active_tasks, LAMBDA e : e.status = "running")

\* C36: whenever the loop has written the status file at the end of its body
\* and gone to sleep, the file's active_tasks entries with status running are
\* exactly the display numbers in the running table, one entry each, and
\* stats.running is the size of the running table.
C36_SnapshotMatchesTable ==
    \A d \in Daemons :
        pc[d] = "reap" /\ status_file[d].written =>
            LET shown == RunningEntries(status_file[d])
            IN /\ Len(shown) = Len(running_tasks[d])
               /\ {shown[i].display_number : i \in 1..Len(shown)}
                      = {t \in Tasks : InSeq(running_tasks[d], t)}
               /\ \A i, j \in 1..Len(shown) :
                      shown[i].display_number = shown[j].display_number => i = j
               /\ status_file[d].stats.running = Len(running_tasks[d])

\* The loop sleeps with a task running and a task_details entry for a task
\* that is not running.
C36_Witness ==
    \E d \in Daemons :
        /\ pc[d] = "reap" /\ status_file[d].written
        /\ Len(running_tasks[d]) = 1
        /\ \E t \in Tasks : task_details[d][t].present /\ ~InSeq(running_tasks[d], t)

\* The keys of task_stdout_buffer: monitor_task_stdout, execute_task and the
\* removal loop create and drop its entries in the statements next to those on
\* task_last_output, so the two tables have the same keys.
StdoutBufferKeys(d) == {t \in Tasks : task_last_output[d][t] # -1}

\* The key sets of running_tasks, task_details, task_project_paths,
\* task_last_output and task_stdout_buffer.
TableKeys(d) ==
    <<{t \in Tasks : InSeq(running_tasks[d], t)},
      {t \in Tasks : task_details[d][t].present},
      {t \in Tasks : task_project_paths[d][t] # NoProject},
      {t \in Tasks : task_last_output[d][t] # -1},
      StdoutBufferKeys(d)>>

\* C39: whenever the loop goes to sleep, running_tasks, task_details,
\* task_project_paths, task_last_output and task_stdout_buffer have the same
\* key set.
C39_TablesAgree ==
    \A d \in Daemons :
        pc[d] = "sleep" => \A i, j \in 1..5 : TableKeys(d)[i] = TableKeys(d)[j]

\* C37: in routed mode, whenever the server has applied a daemon's atomic
\* claim for a task (queued -> running recorded for that machine), claim_task
\* on that daemon returned true and the daemon went on to handle the task,
\* also when the answer to the claim request was lost and the claim re-sent.
C37_AppliedClaimHandled ==
    \A d \in Daemons, t \in Tasks :
        /\ GLOBAL_MODE_ENABLED
        /\ last_call[d].task = t
        /\ HasEv(last_call[d].events, "claim_task", t)
        /\ claimed_by[t] = d
        => /\ \E i \in 1..Len(last_call[d].events) :
                  last_call[d].events[i] = Ev("claim_task", t, "true", "", 0)
           /\ Len(last_call[d].events) > 1

\* The latest record of daemon d holds an exception raised by a step of the
\* loop body, or one raised in the status write at its end.
Raised(d) ==
    \E i \in 1..Len(last_call[d].events) :
        last_call[d].events[i].ev = "raise" /\ last_call[d].events[i].status # "write_status_file"

WriteFailed(d) == last_call[d].events = <<Ev("raise", 0, "write_status_file", "", 0)>>

Logged(d) ==
    \E i \in 1..Len(last_call[d].events) : last_call[d].events[i].ev = "log"

\* C32: the loop never stops because of an error in its body: every
\* exception raised during reap, fetch, dispatch or status publishing, a
\* failed status-file write included, is logged, and the loop sleeps and runs
\* the next iteration unless the signal handler ends the process.
C32_LoopContinues ==
    /\ [](\A d \in Daemons : Raised(d) \/ WriteFailed(d) => Logged(d))
    /\ \A d \in Daemons : Raised(d) ~> (pc[d] \in {"reap", "exited"})

\* Task t is in the running table of d, started early enough for the clock of
\* the model to pass its hard timeout.
RunningWithinClock(d, t) ==
    /\ InSeq(running_tasks[d], t)
    /\ task_details[d][t].present
    /\ task_details[d][t].started_at + TASK_TIMEOUT_SECONDS < MaxTime

\* C35: every task that enters the running table (the queued tasks are the
\* first QueuedAtStart) is eventually removed from it while the loop keeps
\* iterating and time advances: a task whose child never exits is removed by
\* the hard timeout.
C35_RunningRemoved ==
    \A d \in Daemons, t \in 1..QueuedAtStart :
        RunningWithinClock(d, t) ~> ~InSeq(running_tasks[d], t)

\* A reap pass has terminated a child that had not exited and removed its
\* task, more than TASK_TIMEOUT_SECONDS after the start.
C35_Witness ==
    \E d \in Daemons, t \in Tasks :
        /\ HasEv(last_reap[d], "terminate", t)
        /\ HasEv(last_reap[d], "del_running_tasks", t)
        /\ ~InSeq(running_tasks[d], t)
        /\ child[d][t] \in {"terminated", "killed"}
        /\ now > TASK_TIMEOUT_SECONDS

\* C31: a reader that opens the status file at any instant, interleaved with
\* the writes, sees no file or one complete snapshot produced by a single
\* write_status_file call, never a partially written one; a write is fully
\* visible before the next begins.
C31_ReaderSeesWholeSnapshot ==
    /\ disk.status # 0 => Complete(disk.data[disk.status])
    /\ disk.r.pc = "done" => Complete(disk.r.seen)

====
